---- MODULE Spec2Model ----
(***************************************************************************)
(* The pipeline execution engine of synextra: PipelineRuntime.run_stream   *)
(* (graph validation, scheduling, event stream, cooperative pause) and the *)
(* HTTP router that registers a run and serves pause / resume.             *)
(*                                                                         *)
(* Node ids are strings in the program; here they are naturals, ordered    *)
(* as sorted() orders the strings.                                         *)
(***************************************************************************)
EXTENDS Naturals, Integers, Sequences, FiniteSets, TLC

\* ---------------------------------------------------------------- bounds
MaxNodes == 2
MaxEdges == 2
MaxTokens == 1

\* ---------------------------------------------------------------- inputs
NodeIds == {1, 2}
NodeTypes == {"ingest", "agent", "output"}
\* the config every node type has when the spec gives none (the default_factory of
\* the schema): an agent with no tool, a read of page 0 of no named document, a
\* parallel search with no query, a keyword search over every document
DefaultConfig ==
    [tools |-> << >>, page |-> 0, document_id |-> "", queries |-> << >>, document_ids |-> << >>]

NodeSpecs == [id : NodeIds, type : NodeTypes, config : {DefaultConfig}]
EdgeSpecs == [source : NodeIds, target : NodeIds]

RECURSIVE SeqsUpTo(_, _)
\* all sequences over S of length at most n
SeqsUpTo(S, n) ==
    IF n = 0 THEN {<< >>}
    ELSE LET shorter == SeqsUpTo(S, n - 1)
         IN  shorter \cup {Append(s, x) : s \in {t \in shorter : Len(t) = n - 1}, x \in S}

RunSpecs == [nodes : SeqsUpTo(NodeSpecs, MaxNodes), edges : SeqsUpTo(EdgeSpecs, MaxEdges)]

\* the run the scheduler is followed for, and the ids pause / resume are called with
RunId == "r1"
CallIds == {"r1", "missing-run"}

\* what the ingest collaborator may raise: an exception whose str() is empty
IngestErrors == {""}

VARIABLES
    active_runs,    \* keys of the router's active_runs dict
    pause_event,    \* is_set() of the asyncio.Event created for the run
    spec,           \* the PipelineRunSpec of the run
    files_by_node,  \* ids of the nodes an uploaded file came with
    openai,         \* the OpenAI side of the process: "no_key", "down" or "up"
    pc,             \* where the run_stream generator is suspended
    ordered_nodes,  \* result of _topological_order
    idx,            \* position of the for-loop in ordered_nodes
    outputs,        \* outputs dict: node id -> recorded output
    pending,        \* output of the node being executed, held until recorded
    tokens,         \* node_token events still to be yielded for the current node
    events,         \* the events yielded so far, in order
    response,       \* the last answer of pause_run / resume_run
    library_call,   \* the call made to a component on its own, with its arguments
    library_result, \* what that call returned
    stored_indexes, \* _indexes of the Bm25IndexStore: document id -> index
    chunker_input,  \* the extracted document and the parameters the chunker is called with
    inflight,       \* the in-flight markers of OpenAIVectorStorePersistence and its jobs
    embedded        \* the repository's chunks and record of a document, and the persist calls

\* the state of the components that are followed on their own
library == <<library_call, library_result, stored_indexes, chunker_input, inflight, embedded>>

vars == <<active_runs, pause_event, spec, files_by_node, openai, pc, ordered_nodes, idx,
          outputs, pending, tokens, events, response, library>>

NoLibraryCall == [op |-> "none"]
NoLibraryResult == << >>
NoIndexes == << >>
NoChunkerInput ==
    [kind |-> "none", document_id |-> "", blocks |-> << >>, pages |-> << >>,
     token_target |-> 1, overlap_tokens |-> 0]
\* no marker, no job, the clock at its start
NoInflight ==
    [ttl |-> 1, now |-> 0, documents |-> {}, started_at |-> << >>, held_since |-> << >>,
     jobs |-> << >>, persisted |-> {}]
\* no chunks stored, nothing persisted, no call under way
NoEmbedded == [chunks |-> << >>, record |-> << >>, calls |-> << >>, replaced |-> 0]

NoSpec == [nodes |-> << >>, edges |-> << >>]
NoResponse == [status |-> 0, code |-> ""]
NoOutput ==
    [kind |-> "", tokens |-> 0, documents |-> << >>, evidence |-> << >>,
     agent_output |-> << >>, output |-> << >>]
NoOutputs == [n \in {} |-> NoOutput]

\* ---------------------------------------------------------------- events
NoNode == 0

RunEvent(kind) ==
    [event |-> kind, run_id |-> RunId, node_id |-> NoNode, node_type |-> "", error |-> "",
     outputs |-> NoOutputs]

RunFailedEvent(message) ==
    [event |-> "run_failed", run_id |-> RunId, node_id |-> NoNode, node_type |-> "",
     error |-> message, outputs |-> NoOutputs]

RunCompletedEvent(final_outputs) ==
    [event |-> "run_completed", run_id |-> RunId, node_id |-> NoNode, node_type |-> "",
     error |-> "", outputs |-> final_outputs]

NodeEvent(kind, node) ==
    [event |-> kind, run_id |-> RunId, node_id |-> node.id, node_type |-> node.type,
     error |-> "", outputs |-> NoOutputs]

NodeFailedEvent(node, message) ==
    [event |-> "node_failed", run_id |-> RunId, node_id |-> node.id,
     node_type |-> node.type, error |-> message, outputs |-> NoOutputs]

\* ---------------------------------------------------------------- _topological_order
RECURSIVE SortedSeq(_)
\* sorted(ids): ascending
SortedSeq(S) ==
    IF S = {} THEN << >>
    ELSE LET m == CHOOSE x \in S : \A y \in S : x <= y
         IN  <<m>> \o SortedSeq(S \ {m})

NodeIdSet(nodes) == {nodes[i].id : i \in 1..Len(nodes)}

\* by_id = {node.id: node for node in nodes}: the last node of an id wins
ById(nodes) ==
    [n \in NodeIdSet(nodes) |->
        nodes[CHOOSE i \in 1..Len(nodes) :
                 /\ nodes[i].id = n
                 /\ \A j \in 1..Len(nodes) : nodes[j].id = n => j <= i]]

RECURSIVE EdgeError(_, _)
\* the edge loop raises at the first edge with an undeclared endpoint
EdgeError(ids, edges) ==
    IF edges = << >> THEN ""
    ELSE IF Head(edges).source \notin ids THEN "Unknown edge source node"
    ELSE IF Head(edges).target \notin ids THEN "Unknown edge target node"
    ELSE EdgeError(ids, Tail(edges))

\* mutant: indegree[edge.target] += 1 left out
Indegree_NotCounted(ids, edges) == [n \in ids |-> 0]

Indegree(ids, edges) ==
    [n \in ids |-> Cardinality({i \in 1..Len(edges) : edges[i].target = n})]

Adjacency(ids, edges) ==
    [n \in ids |-> LET from == SelectSeq(edges, LAMBDA e : e.source = n)
                   IN  [i \in 1..Len(from) |-> from[i].target]]

\* mutant: a successor whose indegree reaches 0 is never queued
Relax_NeverReady(adj, indegree, queue) == [indegree |-> indegree, queue |-> queue]

RECURSIVE Relax(_, _, _)
\* for nxt in adjacency[current]: indegree[nxt] -= 1; append when it reaches 0
Relax(adj, indegree, queue) ==
    IF adj = << >> THEN [indegree |-> indegree, queue |-> queue]
    ELSE LET nxt == Head(adj)
             deg == indegree[nxt] - 1
         IN  Relax(Tail(adj), [indegree EXCEPT ![nxt] = deg],
                   IF deg = 0 THEN Append(queue, nxt) ELSE queue)

RECURSIVE Kahn(_, _, _, _)
\* while queue: current = queue.popleft(); ...
Kahn(adjacency, indegree, queue, ordered_ids) ==
    IF queue = << >> THEN ordered_ids
    ELSE LET current == Head(queue)
             r == Relax(adjacency[current], indegree, Tail(queue))
         IN  Kahn(adjacency, r.indegree, r.queue, Append(ordered_ids, current))

\* mutant: the final length check left out, so a cycle goes unnoticed
TopologicalOrder_NoCycleCheck(nodes, edges) ==
    LET ids == NodeIdSet(nodes)
        by_id == ById(nodes)
    IN  IF Cardinality(ids) # Len(nodes)
        THEN [error |-> "Pipeline nodes contain duplicate ids", order |-> << >>]
        ELSE IF EdgeError(ids, edges) # ""
        THEN [error |-> EdgeError(ids, edges), order |-> << >>]
        ELSE LET indegree == Indegree(ids, edges)
                 roots == SortedSeq({n \in ids : indegree[n] = 0})
                 ordered_ids == Kahn(Adjacency(ids, edges), indegree, roots, << >>)
             IN  [error |-> "",
                  order |-> [i \in 1..Len(ordered_ids) |-> by_id[ordered_ids[i]]]]

TopologicalOrder(nodes, edges) ==
    LET ids == NodeIdSet(nodes)
        by_id == ById(nodes)
    IN  IF Cardinality(ids) # Len(nodes)
        THEN [error |-> "Pipeline nodes contain duplicate ids", order |-> << >>]
        ELSE IF EdgeError(ids, edges) # ""
        THEN [error |-> EdgeError(ids, edges), order |-> << >>]
        ELSE LET indegree == Indegree(ids, edges)
                 roots == SortedSeq({n \in ids : indegree[n] = 0})
                 ordered_ids == Kahn(Adjacency(ids, edges), indegree, roots, << >>)
             IN  IF Len(ordered_ids) # Len(nodes)
                 THEN [error |-> "Pipeline graph contains a cycle", order |-> << >>]
                 ELSE [error |-> "",
                       order |-> [i \in 1..Len(ordered_ids) |-> by_id[ordered_ids[i]]]]

\* ---------------------------------------------------------------- texts
\* A text is a sequence of pieces: Blank is white space, every other piece is a run
\* of characters with no white space at its ends.
Blank == " "

RECURSIVE LStrip(_)
LStrip(text) ==
    IF text # << >> /\ Head(text) = Blank THEN LStrip(Tail(text)) ELSE text

RECURSIVE RStrip(_)
RStrip(text) ==
    IF text # << >> /\ text[Len(text)] = Blank
    THEN RStrip(SubSeq(text, 1, Len(text) - 1))
    ELSE text

\* str.strip()
Strip(text) == RStrip(LStrip(text))

RECURSIVE Join(_, _)
\* sep.join(parts)
Join(sep, parts) ==
    IF parts = << >> THEN << >>
    ELSE IF Len(parts) = 1 THEN parts[1]
    ELSE parts[1] \o <<sep>> \o Join(sep, Tail(parts))

RECURSIVE Concat(_)
\* [x for group in groups for x in group]
Concat(groups) == IF groups = << >> THEN << >> ELSE Head(groups) \o Concat(Tail(groups))

Range(s) == {s[i] : i \in 1..Len(s)}

\* " ".join(text.split()).strip()
NormalizeWhitespace(text) ==
    LET words == SelectSeq(text, LAMBDA piece : piece # Blank)
    IN  Join(Blank, [i \in 1..Len(words) |-> <<words[i]>>])

\* _truncate: the texts followed here are shorter than every limit it is called with
Truncate(text) == NormalizeWhitespace(text)

RECURSIVE OrderedUnique(_)
\* _ordered_unique: the first occurrence of every item, in order
OrderedUnique(items) ==
    IF items = << >> THEN << >>
    ELSE LET front == OrderedUnique(SubSeq(items, 1, Len(items) - 1))
             last == items[Len(items)]
         IN  IF last \in Range(front) THEN front ELSE Append(front, last)

\* "\n".join(f"- {text}" for text in texts)
Bullets(texts) == Join("\n", [i \in 1..Len(texts) |-> <<"- ">> \o texts[i]])

\* the pieces that end with one of . ! ?
EndsSentence(piece) ==
    piece \in {"alpha.", "beta.", "text.", "One.", "one.", "Two.", "Three!", "Four?", "Five.",
               "Six."}

\* str.lower() of a piece
LowerPiece(piece) ==
    IF piece = "One." THEN "one."
    ELSE IF piece = "Two." THEN "two."
    ELSE IF piece = "Three!" THEN "three!"
    ELSE IF piece = "Four?" THEN "four?"
    ELSE IF piece = "Five." THEN "five."
    ELSE IF piece = "Six." THEN "six."
    ELSE IF piece = "Page" THEN "page"
    ELSE piece

\* str.lower() of a text
LowerText(text) == [i \in 1..Len(text) |-> LowerPiece(text[i])]

RECURSIVE SplitSentences(_, _)
\* re.split(r"(?<=[.!?])\s+", text): the text is cut at every run of white space that
\* follows a piece ending a sentence; current is the part read since the last cut
SplitSentences(text, current) ==
    IF text = << >> THEN <<current>>
    ELSE IF /\ Head(text) = Blank
            /\ current # << >>
            /\ EndsSentence(current[Len(current)])
    THEN <<current>> \o SplitSentences(LStrip(text), << >>)
    ELSE SplitSentences(Tail(text), Append(current, Head(text)))

\* ---------------------------------------------------------------- the instance's documents
\* The Synextra instance the run works on. Document d1 was ingested: its one page,
\* page 0, is in the page store and its chunk in the BM25 index. Document d2 came
\* with the repository and was indexed with persist_embedded, which stores no page.
\* The query of the run matches one chunk of each, d2's with the higher score.
Query == <<"q">>
StoredPages == {<<"d1", 0>>}
StoreDocuments == <<"d1">>

Chunk(document_id, chunk_id, text, source_tool) ==
    [document_id |-> document_id, chunk_id |-> chunk_id, text |-> text,
     source_tool |-> source_tool]

IndexHits ==
    <<Chunk("d2", <<"d2", "chunk", 0>>, <<"beta.">>, "bm25_search"),
      Chunk("d1", <<"d1", "chunk", 0>>, <<"alpha.">>, "bm25_search")>>

\* _dedupe_evidence: the first chunk of every (document_id, chunk_id)
RECURSIVE DedupeEvidence(_)
DedupeEvidence(chunks) ==
    IF chunks = << >> THEN << >>
    ELSE LET front == DedupeEvidence(SubSeq(chunks, 1, Len(chunks) - 1))
             last == chunks[Len(chunks)]
         IN  IF \E i \in 1..Len(front) : /\ front[i].document_id = last.document_id
                                         /\ front[i].chunk_id = last.chunk_id
             THEN front
             ELSE Append(front, last)

DocumentIdsOf(chunks) == [i \in 1..Len(chunks) |-> chunks[i].document_id]

\* what a retrieval call gives: it raised (error is the message), or its evidence
Raised(message) == [raised |-> TRUE, error |-> message, evidence |-> << >>]
Found(chunks) == [raised |-> FALSE, error |-> "", evidence |-> chunks]

\* _default_document_id: None is the empty id
DefaultDocumentId == IF StoreDocuments = << >> THEN "" ELSE StoreDocuments[1]

\* RagAgentOrchestrator.run_read_document: read_page gives None for a document or a
\* page that is not stored, and the orchestrator raises ValueError
RunReadDocument(document_id, page) ==
    IF <<document_id, page>> \notin StoredPages
    THEN Raised("Document page not found")
    ELSE Found(<<Chunk(document_id, <<document_id, "page", page>>, <<"Page", Blank, "text.">>,
                       "read_document")>>)

\* PipelineRuntime.read_document
ReadDocument(page, document_id) ==
    LET resolved_document_id == IF document_id # "" THEN document_id ELSE DefaultDocumentId
    IN  IF resolved_document_id = "" THEN Found(<< >>)
        ELSE RunReadDocument(resolved_document_id, page)

\* _fallback_lexical_bm25: the chunks of the candidate documents that share a token
\* with the query, which are the chunks the index matched
FallbackLexicalBm25(query, document_ids) ==
    LET candidate_ids == IF document_ids # << >> THEN document_ids ELSE StoreDocuments
    IN  SelectSeq(IndexHits, LAMBDA chunk : chunk.document_id \in Range(candidate_ids))

\* PipelineRuntime.bm25_search; top_k is not below the number of hits
Bm25Search(query, document_ids) ==
    LET prompt == Strip(query)
        raw == IF prompt = << >> THEN << >> ELSE IndexHits
        evidence == IF document_ids # << >>
                    THEN SelectSeq(raw, LAMBDA chunk : chunk.document_id \in Range(document_ids))
                    ELSE raw
    IN  IF evidence # << >> THEN evidence
        ELSE IF prompt = << >> THEN << >>
        ELSE FallbackLexicalBm25(prompt, document_ids)

\* run_query of parallel_search: a read or a keyword search
RunQuery(query, request_query) ==
    IF query.type = "read_document"
    THEN ReadDocument(query.page, query.document_id)
    ELSE Found(Bm25Search(request_query, query.document_ids))

\* PipelineRuntime.parallel_search: asyncio.gather without return_exceptions raises
\* the first exception of a sub-operation
ParallelSearch(request_query, queries) ==
    LET groups == [i \in 1..Len(queries) |-> RunQuery(queries[i], request_query)]
        failed == {i \in 1..Len(groups) : groups[i].raised}
    IN  IF failed # {}
        THEN Raised(groups[CHOOSE i \in failed : \A j \in failed : i <= j].error)
        ELSE Found(DedupeEvidence(Concat([i \in 1..Len(groups) |-> groups[i].evidence])))

\* ---------------------------------------------------------------- run_agent
\* PipelineAgentOutputEnvelope
Envelope(answer, citations, tools_used, evidence, upstream_answers) ==
    [answer |-> answer, citations |-> citations, tools_used |-> tools_used,
     evidence |-> evidence, upstream_answers |-> upstream_answers]

\* PipelineCitation
PipelineCitation(chunk, quote) ==
    [document_id |-> chunk.document_id, chunk_id |-> chunk.chunk_id,
     supporting_quote |-> quote, source_tool |-> chunk.source_tool]

\* PipelineRuntime._build_citations: a citation of the first chunk of every
\* (document_id, chunk_id) whose quote is not empty
PipelineBuildCitations(chunks) ==
    LET cited == SelectSeq(DedupeEvidence(chunks), LAMBDA chunk : Truncate(chunk.text) # << >>)
    IN  [i \in 1..Len(cited) |-> PipelineCitation(cited[i], Truncate(cited[i].text))]

\* the first document id among chunks, None (the empty id) when there is none
FirstDocumentOf(chunks) ==
    LET ids == SelectSeq(DocumentIdsOf(chunks), LAMBDA d : d # "")
    IN  IF ids = << >> THEN "" ELSE ids[1]

RECURSIVE ToolLoop(_, _, _, _, _, _)
\* `for tool in selected` of _run_selected_tools; no tool call is guarded, so the
\* exception of a read leaves the loop and the function
ToolLoop(selected, prompt, search_doc_ids, default_document_id, collected, executed_tools) ==
    IF selected = << >>
    THEN [raised |-> FALSE, error |-> "", evidence |-> DedupeEvidence(collected),
          executed_tools |-> executed_tools]
    ELSE LET tool == Head(selected)
             rest == Tail(selected)
             found == Bm25Search(prompt, search_doc_ids)
             read == IF default_document_id # "" THEN ReadDocument(0, default_document_id)
                     ELSE Found(<< >>)
             failed == [raised |-> TRUE, error |-> read.error, evidence |-> << >>,
                        executed_tools |-> << >>]
         IN  IF tool = "bm25_search"
             THEN ToolLoop(rest, prompt, search_doc_ids,
                           IF default_document_id = "" THEN FirstDocumentOf(collected \o found)
                           ELSE default_document_id,
                           collected \o found, Append(executed_tools, tool))
             ELSE IF tool = "read_document"
             THEN IF default_document_id = ""
                  THEN ToolLoop(rest, prompt, search_doc_ids, default_document_id, collected,
                                executed_tools)
                  ELSE IF read.raised THEN failed
                  ELSE ToolLoop(rest, prompt, search_doc_ids, default_document_id,
                                collected \o read.evidence, Append(executed_tools, tool))
             ELSE IF tool = "parallel_search"
             THEN IF read.raised THEN failed
                  ELSE ToolLoop(rest, prompt, search_doc_ids,
                                IF default_document_id = ""
                                THEN FirstDocumentOf(found \o read.evidence)
                                ELSE default_document_id,
                                collected \o DedupeEvidence(found \o read.evidence),
                                Append(executed_tools, tool))
             ELSE ToolLoop(rest, prompt, search_doc_ids, default_document_id, collected,
                           executed_tools)

\* _run_selected_tools
RunSelectedTools(prompt, tools, candidate_document_ids, existing_evidence) ==
    LET selected == OrderedUnique(SelectSeq(tools, LAMBDA tool : tool # ""))
        run_doc_ids == OrderedUnique(SelectSeq(candidate_document_ids, LAMBDA d : d # ""))
        existing_doc_ids ==
            OrderedUnique(SelectSeq(DocumentIdsOf(existing_evidence), LAMBDA d : d # ""))
        scoped_doc_ids == IF run_doc_ids # << >> THEN run_doc_ids ELSE existing_doc_ids
        default_document_id == IF scoped_doc_ids # << >> THEN scoped_doc_ids[1] ELSE ""
    IN  IF selected = << >>
        THEN [raised |-> FALSE, error |-> "", evidence |-> << >>, executed_tools |-> << >>]
        ELSE ToolLoop(selected, prompt, scoped_doc_ids, default_document_id, << >>, << >>)

\* what Runner.run may do when it is called: raise an exception (with an empty
\* message, or the quota message of the API) or return a final output (none, white
\* space only, or an answer)
ModelExceptions == {"", "insufficient_quota"}
ModelOutputs == {<< >>, <<Blank>>, <<"a">>, <<Blank, "b">>}
NoCall == [raises |-> FALSE, message |-> "", final_output |-> << >>]

\* the calls the OpenAI side of the process admits: no key configured (the call is not
\* made), the service down, or the service up
ModelCalls(openai_side) ==
    IF openai_side = "down"
    THEN {[raises |-> TRUE, message |-> m, final_output |-> << >>] : m \in ModelExceptions}
    ELSE IF openai_side = "up"
    THEN {[raises |-> FALSE, message |-> "", final_output |-> o] : o \in ModelOutputs}
    ELSE {NoCall}

\* mutant: the exception of the model call is not caught
GenerateModelAnswer_NoCatch(openai_side, call) ==
    IF openai_side = "no_key"
    THEN [raised |-> FALSE, answer |-> << >>, error |-> "missing_openai_api_key"]
    ELSE IF call.raises
    THEN [raised |-> TRUE, answer |-> << >>,
          error |-> IF call.message = "" THEN "model_call_failed" ELSE call.message]
    ELSE LET answer == Strip(call.final_output)
         IN  IF answer # << >> THEN [raised |-> FALSE, answer |-> answer, error |-> ""]
             ELSE [raised |-> FALSE, answer |-> << >>, error |-> "empty_model_output"]

\* _generate_model_answer: (answer, None) or ("", error); it raises nothing
GenerateModelAnswer(openai_side, call) ==
    IF openai_side = "no_key"
    THEN [raised |-> FALSE, answer |-> << >>, error |-> "missing_openai_api_key"]
    ELSE IF call.raises
    THEN [raised |-> FALSE, answer |-> << >>,
          error |-> IF call.message = "" THEN "model_call_failed" ELSE call.message]
    ELSE LET answer == Strip(call.final_output)
         IN  IF answer # << >> THEN [raised |-> FALSE, answer |-> answer, error |-> ""]
             ELSE [raised |-> FALSE, answer |-> << >>, error |-> "empty_model_output"]

\* str.lower() of an error message
LowerMessage(message) ==
    IF message = "INSUFFICIENT_QUOTA" THEN "insufficient_quota"
    ELSE IF message = "Error code: 429 insufficient_quota"
    THEN "error code: 429 insufficient_quota"
    ELSE IF message = "Disk quota exceeded while writing temp file"
    THEN "disk quota exceeded while writing temp file"
    ELSE IF message = "Error code: 429 - rate limit reached"
    THEN "error code: 429 - rate limit reached"
    ELSE IF message = "Status code: 429 - You exceeded your current quota"
    THEN "status code: 429 - you exceeded your current quota"
    ELSE IF message = "Connection error." THEN "connection error."
    ELSE message

\* needle in lowered, for the four needles _classify_model_error looks for
Occurs(needle, lowered) ==
    needle \in
        IF lowered = "insufficient_quota" THEN {"insufficient_quota", "quota"}
        ELSE IF lowered = "error code: 429 insufficient_quota"
        THEN {"error code: 429", "insufficient_quota", "quota"}
        ELSE IF lowered = "disk quota exceeded while writing temp file" THEN {"quota"}
        ELSE IF lowered = "error code: 429 - rate limit reached" THEN {"error code: 429"}
        ELSE IF lowered = "status code: 429 - you exceeded your current quota"
        THEN {"status code: 429", "quota"}
        ELSE {}

\* mutant: every message that mentions a quota is classed as quota-exhausted
ClassifyModelError_AnyQuota(model_error) ==
    IF Occurs("quota", LowerMessage(model_error)) THEN "openai_quota_exhausted"
    ELSE IF model_error = "missing_openai_api_key" THEN "missing_openai_api_key"
    ELSE IF model_error = "empty_model_output" THEN "empty_model_output"
    ELSE "model_call_failed"

\* _classify_model_error
ClassifyModelError(model_error) ==
    LET lowered == LowerMessage(model_error)
    IN  IF Occurs("insufficient_quota", lowered) THEN "openai_quota_exhausted"
        ELSE IF /\ Occurs("error code: 429", lowered) \/ Occurs("status code: 429", lowered)
                /\ Occurs("quota", lowered)
        THEN "openai_quota_exhausted"
        ELSE IF model_error = "missing_openai_api_key" THEN "missing_openai_api_key"
        ELSE IF model_error = "empty_model_output" THEN "empty_model_output"
        ELSE "model_call_failed"

\* _model_error_message
ModelErrorMessage(error_code) ==
    IF error_code = "openai_quota_exhausted"
    THEN "OpenAI API quota is exhausted for the configured key."
    ELSE IF error_code = "missing_openai_api_key"
    THEN "No OpenAI API key is configured for the backend."
    ELSE IF error_code = "empty_model_output" THEN "The model returned an empty output."
    ELSE "The model call failed before a response was produced."

\* f"agent_model_generation_failed:{model_error_code}"
DetailedMarker(error_code) ==
    IF error_code = "openai_quota_exhausted"
    THEN "agent_model_generation_failed:openai_quota_exhausted"
    ELSE IF error_code = "missing_openai_api_key"
    THEN "agent_model_generation_failed:missing_openai_api_key"
    ELSE IF error_code = "empty_model_output"
    THEN "agent_model_generation_failed:empty_model_output"
    ELSE "agent_model_generation_failed:model_call_failed"

\* _summarize_evidence: the first max_items chunks, one line each
max_items == 4
SummarizeEvidence(chunks) ==
    LET first == SubSeq(chunks, 1, IF Len(chunks) < max_items THEN Len(chunks) ELSE max_items)
        snippets == SelectSeq([i \in 1..Len(first) |-> Truncate(first[i].text)],
                              LAMBDA text : text # << >>)
    IN  Bullets(snippets)

max_points == 4

RECURSIVE CollectPoints(_, _, _)
\* the loop of _extract_summary_points over the sentences of all chunks: a sentence
\* is skipped when it is empty or its lower-cased form was seen, and the loop returns
\* as soon as max_points points are collected
CollectPoints(sentences, points, seen) ==
    IF sentences = << >> \/ Len(points) >= max_points THEN points
    ELSE LET normalized == NormalizeWhitespace(Head(sentences))
             key == LowerText(normalized)
         IN  IF normalized = << >> \/ key \in seen
             THEN CollectPoints(Tail(sentences), points, seen)
             ELSE CollectPoints(Tail(sentences), Append(points, Truncate(normalized)),
                                seen \cup {key})

\* mutant: a sentence that was seen is listed again
ExtractSummaryPoints_KeepsRepeats(chunks) ==
    LET split == Concat([i \in 1..Len(chunks) |-> SplitSentences(chunks[i].text, << >>)])
        sentences == SelectSeq([i \in 1..Len(split) |-> NormalizeWhitespace(split[i])],
                               LAMBDA text : text # << >>)
    IN  SubSeq(sentences, 1, IF Len(sentences) < max_points THEN Len(sentences) ELSE max_points)

\* _extract_summary_points
ExtractSummaryPoints(chunks) ==
    CollectPoints(Concat([i \in 1..Len(chunks) |-> SplitSentences(chunks[i].text, << >>)]),
                  << >>, {})

\* _build_fallback_answer
BuildFallbackAnswer(prompt, upstream_answers, evidence_summary) ==
    LET upstream == IF upstream_answers # << >>
                    THEN <<(<<"Upstream results:\n">> \o Bullets(upstream_answers))>>
                    ELSE << >>
        support == IF evidence_summary # << >>
                   THEN <<(<<"Supporting evidence:\n">> \o evidence_summary)>>
                   ELSE << >>
        nothing == <<"No upstream outputs or evidence were available for this step.">>
        answer_parts == IF upstream \o support # << >> THEN upstream \o support
                        ELSE <<nothing>>
    IN  Join("\n\n", Append(answer_parts, <<"Task: ">> \o prompt))

\* mutant: the sections are dropped when there is nothing to summarise
BuildModelFailureAnswer_EmptyWithoutEvidence(prompt, upstream_answers, evidence, error_code) ==
    LET summary_points == ExtractSummaryPoints(evidence)
    IN  IF summary_points # << >>
        THEN Join("\n\n", <<(<<"Model generation unavailable.">>),
                            (<<"Evidence-based summary:\n">> \o Bullets(summary_points))>>)
        ELSE << >>

\* _build_model_failure_answer
BuildModelFailureAnswer(prompt, upstream_answers, evidence, error_code) ==
    LET summary_points == ExtractSummaryPoints(evidence)
        body == IF summary_points # << >>
                THEN <<"Evidence-based summary:\n">> \o Bullets(summary_points)
                ELSE IF upstream_answers # << >>
                THEN <<"Upstream results:\n">> \o Bullets(upstream_answers)
                ELSE <<"No evidence was available to build a fallback summary.">>
    IN  Join("\n\n", <<(<<"Model generation unavailable.">>),
                        (<<"Reason: ", ModelErrorMessage(error_code)>>),
                        body,
                        (<<"Task: ">> \o prompt)>>)

RECURSIVE AppendMissing(_, _)
\* append every item of more that the list does not hold yet
AppendMissing(list, more) ==
    IF more = << >> THEN list
    ELSE AppendMissing(IF Head(more) \in Range(list) THEN list ELSE Append(list, Head(more)),
                       Tail(more))

\* run_agent for one outcome of the model call: it raises what a tool raised, else
\* returns the envelope
RunAgent(request, openai_side, call) ==
    LET prompt == Strip(request.prompt)
        tool_run == RunSelectedTools(prompt, request.tools, request.document_ids,
                                     request.evidence)
        evidence == DedupeEvidence(request.evidence \o tool_run.evidence)
        stripped == [i \in 1..Len(request.upstream_outputs) |->
                        Strip(request.upstream_outputs[i].answer)]
        upstream_answers == SelectSeq(stripped, LAMBDA answer : answer # << >>)
        evidence_summary == SummarizeEvidence(evidence)
        source_tools == [i \in 1..Len(evidence) |-> evidence[i].source_tool]
        tools_used == AppendMissing(tool_run.executed_tools,
                                    SelectSeq(source_tools, LAMBDA tool : tool # ""))
        model == GenerateModelAnswer(openai_side, call)
        model_error_code == ClassifyModelError(model.error)
        failure_tools == AppendMissing(tools_used,
                            <<"agent_model_generation_failed", DetailedMarker(model_error_code)>>)
        citations == PipelineBuildCitations(evidence)
    IN  IF tool_run.raised
        THEN [raised |-> TRUE, error |-> tool_run.error,
              envelope |-> Envelope(<< >>, << >>, << >>, << >>, << >>)]
        ELSE IF model.raised
        THEN [raised |-> TRUE, error |-> model.error,
              envelope |-> Envelope(<< >>, << >>, << >>, << >>, << >>)]
        ELSE IF model.answer # << >>
        THEN [raised |-> FALSE, error |-> "",
              envelope |-> Envelope(model.answer, citations, tools_used, evidence,
                                    upstream_answers)]
        ELSE IF model.error # ""
        THEN [raised |-> FALSE, error |-> "",
              envelope |-> Envelope(BuildModelFailureAnswer(prompt, upstream_answers, evidence,
                                                            model_error_code),
                                    citations, failure_tools, evidence, upstream_answers)]
        ELSE [raised |-> FALSE, error |-> "",
              envelope |-> Envelope(BuildFallbackAnswer(prompt, upstream_answers,
                                                        evidence_summary),
                                    citations, tools_used, evidence, upstream_answers)]

\* ---------------------------------------------------------------- _execute_node
\* the dict a node returns: documents, evidence, agent_output (an agent's envelope)
\* and output (the envelope an output node passes on); an absent key or None is the
\* empty sequence, kind is the type of the node and tokens the number of stream
\* chunks of an agent's answer
NodeOutput(kind, n, documents, evidence, agent_output, output) ==
    [kind |-> kind, tokens |-> n, documents |-> documents, evidence |-> evidence,
     agent_output |-> agent_output, output |-> output]

\* _incoming_sources: for every edge target the sources of its edges, in edge order
IncomingSources(edges) ==
    [t \in {edges[k].target : k \in 1..Len(edges)} |->
        LET into == SelectSeq(edges, LAMBDA e : e.target = t)
        IN  [i \in 1..Len(into) |-> into[i].source]]

\* upstream = [outputs[source_id] for source_id in incoming_sources if source_id in outputs]
Upstream(node_id, edges, outs) ==
    LET incoming == IncomingSources(edges)
        incoming_sources == IF node_id \in DOMAIN incoming THEN incoming[node_id] ELSE << >>
        recorded == SelectSeq(incoming_sources, LAMBDA source_id : source_id \in DOMAIN outs)
    IN  [i \in 1..Len(recorded) |-> outs[recorded[i]]]

\* _first_document_id
FirstDocumentId(upstream) ==
    LET ids == Concat([i \in 1..Len(upstream) |-> upstream[i].documents])
    IN  IF ids = << >> THEN "" ELSE ids[1]

\* the evidence of the envelope under agent_output, if there is one
EnvelopeEvidence(item) ==
    IF item.agent_output = << >> THEN << >> ELSE item.agent_output[1].evidence

\* _collect_evidence
CollectEvidence(upstream) ==
    DedupeEvidence(Concat([i \in 1..Len(upstream) |->
                              upstream[i].evidence \o EnvelopeEvidence(upstream[i])]))

\* _collect_upstream_agent_outputs
CollectUpstreamAgentOutputs(upstream) ==
    Concat([i \in 1..Len(upstream) |-> upstream[i].agent_output])

\* _collect_document_ids; an envelope's citations name documents of its evidence
CollectDocumentIds(upstream) ==
    OrderedUnique(SelectSeq(
        Concat([i \in 1..Len(upstream) |->
                   upstream[i].documents \o DocumentIdsOf(upstream[i].evidence)
                       \o DocumentIdsOf(EnvelopeEvidence(upstream[i]))]),
        LAMBDA d : d # ""))

\* _stream_chunks: no chunk for an empty text, else at least one
StreamChunkCounts(text) == IF text = << >> THEN {0} ELSE 1..MaxTokens

Raise(message) == [error |-> message, raised |-> TRUE, output |-> NoOutput]
Return(output) == [error |-> "", raised |-> FALSE, output |-> output]

\* the ingest branch: the uploaded file is document d1
IngestNode(node, files) ==
    IF node.id \notin files
    THEN {Raise("Missing uploaded file for ingest node")}
    ELSE {Raise(e) : e \in IngestErrors}
         \cup {Return(NodeOutput("ingest", 0, <<"d1">>, << >>, << >>, << >>))}

\* the bm25_search branch
Bm25SearchNode(node) ==
    {Return(NodeOutput("bm25_search", 0, << >>,
                       Bm25Search(Strip(Query), node.config.document_ids), << >>, << >>))}

\* the read_document branch
ReadDocumentNode(node, upstream) ==
    LET doc_id == IF node.config.document_id # "" THEN node.config.document_id
                  ELSE FirstDocumentId(upstream)
        read == ReadDocument(node.config.page, doc_id)
    IN  IF read.raised THEN {Raise(read.error)}
        ELSE {Return(NodeOutput("read_document", 0, << >>, read.evidence, << >>, << >>))}

\* the parallel_search branch
ParallelSearchNode(node) ==
    LET found == ParallelSearch(Query, node.config.queries)
    IN  IF found.raised THEN {Raise(found.error)}
        ELSE {Return(NodeOutput("parallel_search", 0, << >>, found.evidence, << >>, << >>))}

\* the agent branch, for every outcome of the model call and every way the answer
\* splits into stream chunks
AgentNode(node, upstream, openai_side) ==
    UNION {
        LET runs == {RunAgent(agent_request, openai_side, call) :
                        call \in ModelCalls(openai_side)}
        IN  {Raise(r.error) : r \in {x \in runs : x.raised}}
            \cup UNION {{Return(NodeOutput("agent", n, << >>, << >>, <<r.envelope>>, << >>)) :
                            n \in StreamChunkCounts(r.envelope.answer)} :
                        r \in {x \in runs : ~x.raised}} :
        agent_request \in {[prompt |-> Strip(Query), tools |-> node.config.tools,
                            document_ids |-> CollectDocumentIds(upstream),
                            evidence |-> CollectEvidence(upstream),
                            upstream_outputs |-> CollectUpstreamAgentOutputs(upstream)]}}

RECURSIVE LastAgentOutput(_)
\* for source_output in reversed(upstream): the first one that has an agent_output
LastAgentOutput(upstream) ==
    IF upstream = << >> THEN << >>
    ELSE IF upstream[Len(upstream)].agent_output # << >>
    THEN upstream[Len(upstream)].agent_output
    ELSE LastAgentOutput(SubSeq(upstream, 1, Len(upstream) - 1))

\* the output branch
OutputNode(upstream) ==
    {Return(NodeOutput("output", 0, << >>, << >>, << >>, LastAgentOutput(upstream)))}

\* what _execute_node may do for a node: raise (raised, with the message) or return
\* an output
ExecuteNode(node, files, upstream, openai_side) ==
    IF node.type = "ingest" THEN IngestNode(node, files)
    ELSE IF node.type = "bm25_search" THEN Bm25SearchNode(node)
    ELSE IF node.type = "read_document" THEN ReadDocumentNode(node, upstream)
    ELSE IF node.type = "parallel_search" THEN ParallelSearchNode(node)
    ELSE IF node.type = "agent" THEN AgentNode(node, upstream, openai_side)
    ELSE IF node.type = "output" THEN OutputNode(upstream)
    ELSE {Raise("Unsupported node type")}

\* ---------------------------------------------------------------- Init
Init ==
    /\ active_runs = {}
    /\ pause_event = TRUE
    /\ spec = NoSpec
    /\ files_by_node = {}
    /\ openai = "no_key"
    /\ library_call = NoLibraryCall
    /\ library_result = NoLibraryResult
    /\ stored_indexes = NoIndexes
    /\ chunker_input = NoChunkerInput
    /\ inflight = NoInflight
    /\ embedded = NoEmbedded
    /\ pc = "idle"
    /\ ordered_nodes = << >>
    /\ idx = 0
    /\ outputs = NoOutputs
    /\ pending = NoOutput
    /\ tokens = 0
    /\ events = << >>
    /\ response = NoResponse

\* ---------------------------------------------------------------- run_stream
\* mutant: every recorded output is carried, whatever the type of its node
FinalOutputs_EveryNode(nodes, ordered, outs) == outs

\* final_outputs: the outputs of the output nodes, else of the last executed agent
FinalOutputs(nodes, ordered, outs) ==
    LET out_ids == {n \in DOMAIN outs : \E i \in 1..Len(nodes) :
                        nodes[i].id = n /\ nodes[i].type = "output"}
        agents == {i \in 1..Len(ordered) :
                        ordered[i].type = "agent" /\ ordered[i].id \in DOMAIN outs}
    IN  IF out_ids # {} THEN [n \in out_ids |-> outs[n]]
        ELSE IF agents # {}
        THEN LET last == CHOOSE i \in agents : \A j \in agents : j <= i
             IN  [n \in {ordered[last].id} |-> outs[n]]
        ELSE NoOutputs

\* the head of `for node in ordered_nodes`, run up to its first yield: the loop is
\* over (run_completed), the pause event is cleared (run_paused), or the node starts
LoopHead(ordered, i, outs, evs) ==
    IF i > Len(ordered)
    THEN /\ events' = Append(evs, RunCompletedEvent(FinalOutputs(spec.nodes, ordered, outs)))
         /\ pc' = "final"
    ELSE IF ~pause_event
    THEN /\ events' = Append(evs, RunEvent("run_paused"))
         /\ pc' = "paused"
    ELSE /\ events' = Append(evs, NodeEvent("node_started", ordered[i]))
         /\ pc' = "exec"

\* the nodes whose uploaded file _execute_node looks up
IngestIds(nodes) == {nodes[i].id : i \in {j \in 1..Len(nodes) : nodes[j].type = "ingest"}}

\* POST /runs/stream: parse the spec and the files, register the run with its pause
\* event set, and hand the (not yet started) stream to the response
StartRun ==
    /\ pc = "idle"
    /\ \E sp \in RunSpecs : \E files \in SUBSET IngestIds(sp.nodes) :
          /\ spec' = sp
          /\ files_by_node' = files
    /\ openai' = "no_key"
    /\ UNCHANGED library
    /\ pause_event' = TRUE
    /\ active_runs' = active_runs \cup {RunId}
    /\ pc' = "start"
    /\ UNCHANGED <<ordered_nodes, idx, outputs, pending, tokens, events, response>>

\* the response starts reading: run_stream yields run_started
EmitRunStarted ==
    /\ pc = "start"
    /\ events' = Append(events, RunEvent("run_started"))
    /\ pc' = "validate"
    /\ UNCHANGED <<active_runs, pause_event, spec, files_by_node, openai, library,
                   ordered_nodes, idx, outputs, pending, tokens, response>>

\* mutant: a validation error takes the node-failure path, which yields run_failed
\* once more before it returns
Validate_FailsTwice ==
    /\ pc = "validate"
    /\ LET t == TopologicalOrder(spec.nodes, spec.edges)
       IN  IF t.error # ""
           THEN /\ events' = Append(events, RunFailedEvent(t.error))
                /\ pc' = "failed"
                /\ UNCHANGED <<ordered_nodes, idx>>
           ELSE /\ ordered_nodes' = t.order
                /\ idx' = 1
                /\ LoopHead(t.order, 1, outputs, events)
    /\ UNCHANGED <<active_runs, pause_event, spec, files_by_node, openai, library, outputs,
                   pending, tokens, response>>

\* _topological_order, then run_failed or the first turn of the loop
Validate ==
    /\ pc = "validate"
    /\ LET t == TopologicalOrder(spec.nodes, spec.edges)
       IN  IF t.error # ""
           THEN /\ events' = Append(events, RunFailedEvent(t.error))
                /\ pc' = "final"
                /\ UNCHANGED <<ordered_nodes, idx>>
           ELSE /\ ordered_nodes' = t.order
                /\ idx' = 1
                /\ LoopHead(t.order, 1, outputs, events)
    /\ UNCHANGED <<active_runs, pause_event, spec, files_by_node, openai, library, outputs,
                   pending, tokens, response>>

\* mutant: when the event is set again before the wait, the node starts without
\* run_resumed
WaitPause_SkipsResumed ==
    /\ pc = "paused"
    /\ IF pause_event
       THEN /\ events' = Append(events, NodeEvent("node_started", ordered_nodes[idx]))
            /\ pc' = "exec"
       ELSE /\ pc' = "waiting"
            /\ UNCHANGED events
    /\ UNCHANGED <<active_runs, pause_event, spec, files_by_node, openai, library,
                   ordered_nodes, idx, outputs, pending, tokens, response>>

\* await pause_event.wait(): returns at once when the event is set, else suspends
WaitPause ==
    /\ pc = "paused"
    /\ IF pause_event
       THEN /\ events' = Append(events, RunEvent("run_resumed"))
            /\ pc' = "resumed"
       ELSE /\ pc' = "waiting"
            /\ UNCHANGED events
    /\ UNCHANGED <<active_runs, pause_event, spec, files_by_node, openai, library,
                   ordered_nodes, idx, outputs, pending, tokens, response>>

\* mutant: the woken waiter looks at the event again and waits on when it is cleared
Wake_WaitsAgain ==
    /\ pc = "woken"
    /\ IF pause_event
       THEN /\ events' = Append(events, RunEvent("run_resumed"))
            /\ pc' = "resumed"
       ELSE /\ pc' = "waiting"
            /\ UNCHANGED events
    /\ UNCHANGED <<active_runs, pause_event, spec, files_by_node, openai, library,
                   ordered_nodes, idx, outputs, pending, tokens, response>>

\* the waiter woken by set() runs on, whatever the event's value is by now
Wake ==
    /\ pc = "woken"
    /\ events' = Append(events, RunEvent("run_resumed"))
    /\ pc' = "resumed"
    /\ UNCHANGED <<active_runs, pause_event, spec, files_by_node, openai, library,
                   ordered_nodes, idx, outputs, pending, tokens, response>>

\* after run_resumed the node starts, with no second look at the pause event
StartNode ==
    /\ pc = "resumed"
    /\ events' = Append(events, NodeEvent("node_started", ordered_nodes[idx]))
    /\ pc' = "exec"
    /\ UNCHANGED <<active_runs, pause_event, spec, files_by_node, openai, library,
                   ordered_nodes, idx, outputs, pending, tokens, response>>

\* str(exc) or f"{node.id} execution failed"
FailureMessage(message) == IF message = "" THEN "execution failed" ELSE message

\* the try block up to its first yield: node_failed, the first node_token of an
\* agent, or node_completed
RunNode ==
    /\ pc = "exec"
    /\ \E upstream \in {Upstream(ordered_nodes[idx].id, spec.edges, outputs)} :
       \E r \in ExecuteNode(ordered_nodes[idx], files_by_node, upstream, openai) :
          IF r.raised
          THEN /\ events' = Append(events,
                        NodeFailedEvent(ordered_nodes[idx], FailureMessage(r.error)))
               /\ pc' = "failed"
               /\ UNCHANGED <<pending, tokens>>
          ELSE IF ordered_nodes[idx].type = "agent" /\ r.output.tokens > 0
          THEN /\ events' = Append(events, NodeEvent("node_token", ordered_nodes[idx]))
               /\ pending' = r.output
               /\ tokens' = r.output.tokens - 1
               /\ pc' = "token"
          ELSE /\ events' = Append(events, NodeEvent("node_completed", ordered_nodes[idx]))
               /\ pending' = r.output
               /\ tokens' = 0
               /\ pc' = "completed"
    /\ UNCHANGED <<active_runs, pause_event, spec, files_by_node, openai, library,
                   ordered_nodes, idx, outputs, response>>

\* mutant: node_completed is not yielded after the last token
EmitToken_NoCompleted ==
    /\ pc = "token"
    /\ IF tokens > 0
       THEN /\ events' = Append(events, NodeEvent("node_token", ordered_nodes[idx]))
            /\ tokens' = tokens - 1
            /\ pc' = "token"
       ELSE /\ pc' = "completed"
            /\ UNCHANGED <<events, tokens>>
    /\ UNCHANGED <<active_runs, pause_event, spec, files_by_node, openai, library,
                   ordered_nodes, idx, outputs, pending, response>>

\* the next node_token, or node_completed after the last one
EmitToken ==
    /\ pc = "token"
    /\ IF tokens > 0
       THEN /\ events' = Append(events, NodeEvent("node_token", ordered_nodes[idx]))
            /\ tokens' = tokens - 1
            /\ pc' = "token"
       ELSE /\ events' = Append(events, NodeEvent("node_completed", ordered_nodes[idx]))
            /\ pc' = "completed"
            /\ UNCHANGED tokens
    /\ UNCHANGED <<active_runs, pause_event, spec, files_by_node, openai, library,
                   ordered_nodes, idx, outputs, pending, response>>

\* outputs[node.id] = output, then the next turn of the loop
RecordOutput ==
    /\ pc = "completed"
    /\ LET outs == [n \in DOMAIN outputs \cup {ordered_nodes[idx].id} |->
                        IF n = ordered_nodes[idx].id THEN pending ELSE outputs[n]]
       IN  /\ outputs' = outs
           /\ idx' = idx + 1
           /\ LoopHead(ordered_nodes, idx + 1, outs, events)
    /\ pending' = NoOutput
    /\ UNCHANGED <<active_runs, pause_event, spec, files_by_node, openai, library,
                   ordered_nodes, tokens, response>>

\* mutant: run_failed is yielded but the generator does not return
FailRun_NoReturn ==
    /\ pc = "failed"
    /\ events' = Append(events, RunFailedEvent(events[Len(events)].error))
    /\ pc' = "completed"
    /\ UNCHANGED <<active_runs, pause_event, spec, files_by_node, openai, library,
                   ordered_nodes, idx, outputs, pending, tokens, response>>

\* after node_failed: run_failed with the same message, and return
FailRun ==
    /\ pc = "failed"
    /\ events' = Append(events, RunFailedEvent(events[Len(events)].error))
    /\ pc' = "final"
    /\ UNCHANGED <<active_runs, pause_event, spec, files_by_node, openai, library,
                   ordered_nodes, idx, outputs, pending, tokens, response>>

\* the generator returns after its last event; stream_events' finally pops the run
FinishStream ==
    /\ pc = "final"
    /\ active_runs' = active_runs \ {RunId}
    /\ pc' = "done"
    /\ UNCHANGED <<pause_event, spec, files_by_node, openai, library, ordered_nodes, idx,
                   outputs, pending, tokens, events, response>>

\* the caller stops reading. A stream that was never started has not entered its
\* try block, so its finally does not run; a started one pops the run.
AbandonStream ==
    /\ pc \notin {"idle", "done", "abandoned"}
    /\ active_runs' = IF pc = "start" THEN active_runs ELSE active_runs \ {RunId}
    /\ pc' = "abandoned"
    /\ UNCHANGED <<pause_event, spec, files_by_node, openai, library, ordered_nodes, idx,
                   outputs, pending, tokens, events, response>>

\* ---------------------------------------------------------------- pause / resume
NotFound == [status |-> 404, code |-> "run_not_found"]
Ok == [status |-> 200, code |-> ""]

\* mutant: the registry lookup left out, the run's event cleared whatever the id
pause_run_NoLookup(run_id) ==
    /\ pause_event' = FALSE
    /\ response' = Ok
    /\ UNCHANGED <<active_runs, spec, files_by_node, openai, library, pc, ordered_nodes, idx,
                   outputs, pending, tokens, events>>

\* POST /runs/{run_id}/pause
pause_run(run_id) ==
    /\ IF run_id \notin active_runs
       THEN /\ response' = NotFound
            /\ UNCHANGED pause_event
       ELSE /\ pause_event' = FALSE
            /\ response' = Ok
    /\ UNCHANGED <<active_runs, spec, files_by_node, openai, library, pc, ordered_nodes, idx,
                   outputs, pending, tokens, events>>

\* mutant: set() changes the value but wakes no waiter
resume_run_NoWake(run_id) ==
    /\ IF run_id \notin active_runs
       THEN /\ response' = NotFound
            /\ UNCHANGED <<pause_event, pc>>
       ELSE /\ pause_event' = TRUE
            /\ response' = Ok
            /\ UNCHANGED pc
    /\ UNCHANGED <<active_runs, spec, files_by_node, openai, library, ordered_nodes, idx,
                   outputs, pending, tokens, events>>

\* POST /runs/{run_id}/resume: set() also wakes the scheduler waiting on the event
resume_run(run_id) ==
    /\ IF run_id \notin active_runs
       THEN /\ response' = NotFound
            /\ UNCHANGED <<pause_event, pc>>
       ELSE /\ pause_event' = TRUE
            /\ pc' = IF pc = "waiting" THEN "woken" ELSE pc
            /\ response' = Ok
    /\ UNCHANGED <<active_runs, spec, files_by_node, openai, library, ordered_nodes, idx,
                   outputs, pending, tokens, events>>

\* ---------------------------------------------------------------- specification
SchedulerStep ==
    \/ EmitRunStarted
    \/ Validate
    \/ WaitPause
    \/ Wake
    \/ StartNode
    \/ RunNode
    \/ EmitToken
    \/ RecordOutput
    \/ FailRun
    \/ FinishStream

Next ==
    \/ StartRun
    \/ SchedulerStep
    \/ AbandonStream
    \/ \E run_id \in CallIds : pause_run(run_id)
    \/ \E run_id \in CallIds : resume_run(run_id)

\* a run whose caller reads the stream to its end, with the pause and resume calls
\* made for it; the event loop runs the generator whenever it can go on
NextRead ==
    \/ StartRun
    \/ SchedulerStep
    \/ pause_run(RunId)
    \/ resume_run(RunId)

FairSpec == Init /\ [][NextRead]_vars /\ WF_vars(SchedulerStep)

Spec == Init /\ [][Next]_vars

\* ---------------------------------------------------------------- runs with data
\* Runs followed for what the nodes compute: three node ids, every node type but
\* ingest, node configs, and the OpenAI side in each of its states. The caller reads
\* the stream to its end and nobody pauses the run.
MaxDataEdges == 2
MaxQueries == 2

DataNodeIds == {1, 2, 3}
DataEdgeSpecs == [source : DataNodeIds, target : DataNodeIds]

Node(id, type, config) == [id |-> id, type |-> type, config |-> config]

\* graphs of agent and output nodes with default configs, declared in id order
OrderNodeSpecs == {Node(id, type, DefaultConfig) : id \in DataNodeIds, type \in {"agent", "output"}}
OrderNodeLists ==
    {nodes \in SeqsUpTo(OrderNodeSpecs, Cardinality(DataNodeIds)) :
        \A i \in 1..(Len(nodes) - 1) : nodes[i].id < nodes[i + 1].id}
OrderRunSpecs == [nodes : OrderNodeLists, edges : SeqsUpTo(DataEdgeSpecs, MaxDataEdges)]

\* the sub-operations of a parallel search: a keyword search, a read of the stored
\* page 0 of d1, a read of its page 1, which is not stored
ParallelQueries ==
    {[type |-> "bm25_search", page |-> 0, document_id |-> "", document_ids |-> << >>],
     [type |-> "read_document", page |-> 0, document_id |-> "d1", document_ids |-> << >>],
     [type |-> "read_document", page |-> 1, document_id |-> "d1", document_ids |-> << >>]}

AgentToolLists ==
    {<< >>, <<"read_document">>, <<"bm25_search", "read_document">>, <<"parallel_search">>}

AgentNodes(id) ==
    {Node(id, "agent", [DefaultConfig EXCEPT !.tools = t]) : t \in AgentToolLists}
ReadNodes(id) ==
    {Node(id, "read_document", [DefaultConfig EXCEPT !.document_id = d, !.page = p]) :
        d \in {"", "d1", "d2"}, p \in {0, 1}}
SearchNodes(id) ==
    {Node(id, "bm25_search", [DefaultConfig EXCEPT !.document_ids = ds]) :
        ds \in {<< >>, <<"d2">>}}
ParallelNodes(id) ==
    {Node(id, "parallel_search", [DefaultConfig EXCEPT !.queries = qs]) :
        qs \in SeqsUpTo(ParallelQueries, MaxQueries)}

\* one retrieval or agent node, alone or followed by an agent, a read or an output
ToolSourceNodes == AgentNodes(1) \cup ReadNodes(1) \cup SearchNodes(1) \cup ParallelNodes(1)
ToolTargetNodes ==
    AgentNodes(2) \cup {Node(2, "read_document", DefaultConfig), Node(2, "output", DefaultConfig)}
ToolRunSpecs ==
    {[nodes |-> <<a>>, edges |-> << >>] : a \in ToolSourceNodes}
    \cup {[nodes |-> <<a, b>>, edges |-> e] :
            a \in ToolSourceNodes, b \in ToolTargetNodes,
            e \in {<< >>, <<[source |-> 1, target |-> 2]>>}}

DataRunSpecs == OrderRunSpecs \cup ToolRunSpecs
OpenAiSides == {"no_key", "down", "up"}

\* POST /runs/stream with a spec of DataRunSpecs
StartDataRun ==
    /\ pc = "idle"
    /\ \E sp \in DataRunSpecs : spec' = sp
    /\ \E side \in OpenAiSides : openai' = side
    /\ UNCHANGED library
    /\ files_by_node' = {}
    /\ pause_event' = TRUE
    /\ active_runs' = active_runs \cup {RunId}
    /\ pc' = "start"
    /\ UNCHANGED <<ordered_nodes, idx, outputs, pending, tokens, events, response>>

DataNext ==
    \/ StartDataRun
    \/ EmitRunStarted
    \/ Validate
    \/ RunNode
    \/ EmitToken
    \/ RecordOutput
    \/ FailRun
    \/ FinishStream

DataSpec == Init /\ [][DataNext]_vars

\* ================================================================ claims
\* ---------------------------------------------------------------- vocabulary
Started == pc # "idle"
StreamEnded == pc = "done"
LastEvent == events[Len(events)]
Is(i, kind) == events[i].event = kind
IsNode(i, kind, n) == events[i].event = kind /\ events[i].node_id = n
NodeKinds == {"node_started", "node_token", "node_completed", "node_failed"}

\* the three ways a run spec is invalid, stated on the spec itself
HasDuplicateIds(nodes) ==
    \E i, j \in 1..Len(nodes) : i < j /\ nodes[i].id = nodes[j].id

HasUnknownEndpoint(nodes, edges) ==
    \E k \in 1..Len(edges) :
        \/ edges[k].source \notin NodeIdSet(nodes)
        \/ edges[k].target \notin NodeIdSet(nodes)

EdgeRel(edges) == {<<edges[k].source, edges[k].target>> : k \in 1..Len(edges)}

\* b is reached from a along one or more edges
HasPath(edges, a, b) ==
    LET R == EdgeRel(edges)
    IN  \E w \in SeqsUpTo(NodeIds, Cardinality(NodeIds) + 1) :
            /\ Len(w) >= 2
            /\ w[1] = a
            /\ w[Len(w)] = b
            /\ \A k \in 1..(Len(w) - 1) : <<w[k], w[k + 1]>> \in R

HasCycle(edges) == \E n \in NodeIds : HasPath(edges, n, n)

InvalidSpec(sp) ==
    \/ HasDuplicateIds(sp.nodes)
    \/ HasUnknownEndpoint(sp.nodes, sp.edges)
    \/ HasCycle(sp.edges)

ValidSpec(sp) == ~InvalidSpec(sp)

\* ---------------------------------------------------------------- run_agent on its own
\* POST /v1/pipeline/agents/run: run_agent is called once with a request of the
\* caller's, for every state of the OpenAI side and every outcome of the model call.
MaxEvidence == 3

\* the messages of the exceptions the model call may raise
ExceptionMessages ==
    {"", "insufficient_quota", "INSUFFICIENT_QUOTA", "Error code: 429 insufficient_quota",
     "Disk quota exceeded while writing temp file", "Error code: 429 - rate limit reached",
     "Status code: 429 - You exceeded your current quota", "Connection error.",
     "missing_openai_api_key", "empty_model_output"}

\* the texts of the chunks a request may carry as evidence; w160 is a word of 160
\* characters, every other piece a word of a few
EvidenceTexts ==
    <<(<<"One.", Blank, "Two.">>),
      (<<"one.", Blank, Blank, "Three!">>),
      (<<"Four?", Blank, "Five.", Blank, "Six.">>),
      (<<Blank>>),
      (<<"tail", Blank, "One.">>),
      (<<"w160", Blank, "alpha.">>),
      (<<"w160", Blank, Blank, "beta.">>)>>

RequestChunk(n) == Chunk("d1", <<"d1", "chunk", n>>, EvidenceTexts[n], "bm25_search")

EvidenceLists == SeqsUpTo({RequestChunk(n) : n \in 1..Len(EvidenceTexts)}, MaxEvidence)

UpstreamOutputLists ==
    {<< >>, <<Envelope(<<"up">>, << >>, << >>, << >>, << >>)>>,
     <<Envelope(<<Blank>>, << >>, << >>, << >>, << >>),
       Envelope(<<"up", Blank>>, << >>, << >>, << >>, << >>)>>}

AgentRequests ==
    [prompt : {Query}, tools : {<< >>, <<"bm25_search">>}, document_ids : {<< >>},
     evidence : EvidenceLists, upstream_outputs : UpstreamOutputLists]

AgentModelCalls(openai_side) ==
    IF openai_side = "down"
    THEN {[raises |-> TRUE, message |-> m, final_output |-> << >>] : m \in ExceptionMessages}
    ELSE ModelCalls(openai_side)

\* the handler of POST /agents/run: return runtime.run_agent(body)
run_agent ==
    /\ library_call = NoLibraryCall
    /\ \E body \in AgentRequests, side \in OpenAiSides :
          \E model_call \in AgentModelCalls(side) :
             /\ library_call' = [op |-> "run_agent", request |-> body, openai_side |-> side,
                                 model_call |-> model_call]
             /\ library_result' = RunAgent(body, side, model_call)
    /\ UNCHANGED <<active_runs, pause_event, spec, files_by_node, openai, pc, ordered_nodes, idx,
                   outputs, pending, tokens, events, response, stored_indexes,
                   chunker_input, inflight, embedded>>

AgentNext == run_agent

AgentSpec == Init /\ [][AgentNext]_vars

\* ---------------------------------------------------------------- the retrieval index on its own
\* The Bm25IndexStore of a Synextra instance, with upsert and search called on it, and
\* PipelineRuntime.bm25_search called on the instance. Chunk ids are SHA-256 digests
\* in the program; here they are naturals, ordered as the strings are.
MaxTopK == 2

\* the document ids, in the order of the strings
AllDocumentIds == <<"d1", "d2">>
DocumentRank(document_id) == CHOOSE i \in 1..Len(AllDocumentIds) : AllDocumentIds[i] = document_id
Signatures == {"s1", "s2"}

\* the pieces of the texts that _TOKEN_RE ([A-Za-z0-9_]+) matches, lower case; every
\* other piece holds no letter, digit or underscore
Words == {"q", "r", "_"}
SearchQueries == {<<"q">>, <<"_">>, <<"?!">>}

\* _tokenize, _tokenize_search: the runs of letters, digits and _ of a text
Tokenize(text) == SelectSeq(text, LAMBDA piece : piece \in Words)

ChunkRecord(document_id, chunk_id, text) ==
    [document_id |-> document_id, chunk_id |-> chunk_id, page_number |-> 0, text |-> text]

\* the chunk lists a document is indexed with: chunk ids follow no order
ChunkLists(document_id) ==
    IF document_id = "d1"
    THEN {<<ChunkRecord("d1", 3, <<"q">>), ChunkRecord("d1", 1, <<"q">>)>>,
          <<ChunkRecord("d1", 3, <<"q", "r">>), ChunkRecord("d1", 1, <<"q">>)>>}
    ELSE {<<ChunkRecord("d2", 2, <<"q">>)>>, <<ChunkRecord("d2", 2, <<"_">>)>>}

\* the tokens of the queries
QueryTokens == UNION {Range(Tokenize(query)) : query \in SearchQueries}

\* the scores a scorer may give the chunks of an index, each for the queries that share
\* a token with the chunk (0 when none does): a positive score, or a negative one
\* (rank_bm25 gives a term found in most chunks a negative weight); chunks of the same
\* tokens score the same
MatchScores == {-1, 1, 2}
ScoreLists(chunks) ==
    {scores \in [1..Len(chunks) -> MatchScores \cup {0}] :
        \A i \in 1..Len(chunks) :
            /\ scores[i] = 0 <=> Range(Tokenize(chunks[i].text)) \cap QueryTokens = {}
            /\ \A j \in 1..Len(chunks) :
                  Tokenize(chunks[i].text) = Tokenize(chunks[j].text) => scores[i] = scores[j]}

\* Bm25Index.__init__; scores is what its scorer gives
Bm25Index(document_id, chunks, signature, scores) ==
    [document_id |-> document_id, signature |-> signature, chunks |-> chunks,
     scores |-> scores]

\* _Bm25Scorer.score: 0.0 for every chunk when the query has no token, and for a chunk
\* that shares no token with the query
Score(index, query) ==
    [i \in 1..Len(index.chunks) |->
        IF Range(Tokenize(index.chunks[i].text)) \cap Range(Tokenize(query)) = {} THEN 0
        ELSE index.scores[i]]

Max(a, b) == IF a >= b THEN a ELSE b

RECURSIVE LexLess(_, _)
\* tuple comparison of Python, on tuples of integers of one length
LexLess(a, b) ==
    IF a = << >> THEN FALSE
    ELSE IF Head(a) # Head(b) THEN Head(a) < Head(b)
    ELSE LexLess(Tail(a), Tail(b))

\* list.sort(key=...): stable, ascending in the keys
SortByKey(items, keys) ==
    LET before(j, i) == LexLess(keys[j], keys[i]) \/ (keys[j] = keys[i] /\ j < i)
        at(k) == CHOOSE i \in 1..Len(items) :
                    Cardinality({j \in 1..Len(items) : before(j, i)}) = k - 1
    IN  [k \in 1..Len(items) |-> items[at(k)]]

Take(items, n) == SubSeq(items, 1, IF Len(items) < n THEN Len(items) ELSE n)

EvidenceChunk(chunk, score) ==
    [document_id |-> chunk.document_id, chunk_id |-> chunk.chunk_id,
     page_number |-> chunk.page_number, text |-> chunk.text, score |-> score,
     source_tool |-> "bm25_search"]

IndexSearch_KeepsEveryScore(index, query, top_k) ==
    LET scores == Score(index, query)
        indexed == [i \in 1..Len(scores) |-> <<i, scores[i]>>]
        sorted == SortByKey(indexed, [i \in 1..Len(indexed) |->
                                         <<0 - indexed[i][2], indexed[i][1]>>])
        best == Take(sorted, Max(1, top_k))
    IN  [i \in 1..Len(best) |-> EvidenceChunk(index.chunks[best[i][1]], best[i][2])]

\* Bm25Index.search
IndexSearch(index, query, top_k) ==
    LET scores == Score(index, query)
        indexed == [i \in 1..Len(scores) |-> <<i, scores[i]>>]
        sorted == SortByKey(indexed, [i \in 1..Len(indexed) |->
                                         <<0 - indexed[i][2], indexed[i][1]>>])
        best == SelectSeq(Take(sorted, Max(1, top_k)), LAMBDA pair : ~(pair[2] <= 0))
    IN  [i \in 1..Len(best) |-> EvidenceChunk(index.chunks[best[i][1]], best[i][2])]

\* sorted(self._indexes.keys())
SortedKeys(indexes) == SelectSeq(AllDocumentIds, LAMBDA d : d \in DOMAIN indexes)

\* Bm25IndexStore.search; document_ids None is the empty list
StoreSearch(indexes, query, top_k, document_ids) ==
    LET candidate_ids == IF document_ids # << >> THEN document_ids ELSE SortedKeys(indexes)
        evidence == Concat([i \in 1..Len(candidate_ids) |->
                        IF candidate_ids[i] \in DOMAIN indexes
                        THEN IndexSearch(indexes[candidate_ids[i]], query, top_k)
                        ELSE << >>])
        sorted == SortByKey(evidence, [i \in 1..Len(evidence) |->
                                          <<0 - evidence[i].score, evidence[i].chunk_id>>])
    IN  Take(sorted, Max(1, top_k))

\* RagAgentOrchestrator.run_bm25
RunBm25(indexes, prompt, top_k) == StoreSearch(indexes, prompt, top_k, << >>)

\* repository.list_chunks: the repository holds the chunks the index was built from
ListChunks(indexes, document_id) ==
    IF document_id \in DOMAIN indexes THEN indexes[document_id].chunks ELSE << >>

\* PipelineRuntime._fallback_lexical_bm25
FallbackLexical(indexes, query, top_k, document_ids) ==
    LET query_tokens == Range(Tokenize(query))
        candidate_ids == IF document_ids # << >> THEN document_ids ELSE SortedKeys(indexes)
        chunks == Concat([i \in 1..Len(candidate_ids) |-> ListChunks(indexes, candidate_ids[i])])
        overlap(chunk) == Cardinality(query_tokens \cap Range(Tokenize(chunk.text)))
        scored_chunks == SelectSeq([i \in 1..Len(chunks) |->
                                       EvidenceChunk(chunks[i], overlap(chunks[i]))],
                                   LAMBDA chunk : ~(chunk.score <= 0))
        sorted == SortByKey(scored_chunks,
                            [i \in 1..Len(scored_chunks) |->
                                <<0 - scored_chunks[i].score,
                                  DocumentRank(scored_chunks[i].document_id),
                                  scored_chunks[i].page_number, scored_chunks[i].chunk_id>>])
    IN  IF query_tokens = {} THEN << >> ELSE Take(sorted, Max(1, top_k))

RuntimeBm25Search_Unfiltered(indexes, query, top_k, document_ids) ==
    LET prompt == Strip(query)
        evidence == RunBm25(indexes, prompt, top_k)
    IN  IF evidence # << >> THEN evidence
        ELSE IF prompt = << >> THEN << >>
        ELSE FallbackLexical(indexes, prompt, top_k, document_ids)

\* PipelineRuntime.bm25_search
RuntimeBm25Search(indexes, query, top_k, document_ids) ==
    LET prompt == Strip(query)
        raw == RunBm25(indexes, prompt, top_k)
        evidence == IF document_ids # << >>
                    THEN SelectSeq(raw, LAMBDA chunk : chunk.document_id \in Range(document_ids))
                    ELSE raw
    IN  IF evidence # << >> THEN evidence
        ELSE IF prompt = << >> THEN << >>
        ELSE FallbackLexical(indexes, prompt, top_k, document_ids)

\* the lists of document ids a search is scoped with
DocumentIdLists == {<< >>, <<"d1">>, <<"d2", "d1">>}

Upsert_AlwaysReplaces(indexes, document_id, chunks, signature, scores) ==
    [d \in DOMAIN indexes \cup {document_id} |->
        IF d = document_id THEN Bm25Index(document_id, chunks, signature, scores)
        ELSE indexes[d]]

\* Bm25IndexStore.upsert: the registry after the call
Upsert(indexes, document_id, chunks, signature, scores) ==
    IF document_id \in DOMAIN indexes /\ indexes[document_id].signature = signature
    THEN indexes
    ELSE [d \in DOMAIN indexes \cup {document_id} |->
            IF d = document_id THEN Bm25Index(document_id, chunks, signature, scores)
            ELSE indexes[d]]

\* a call of Bm25IndexStore.upsert
upsert ==
    /\ \E document_id \in Range(AllDocumentIds), signature \in Signatures :
        \E chunks \in ChunkLists(document_id) :
        \E scores \in ScoreLists(chunks) :
          /\ library_call' = [op |-> "upsert", document_id |-> document_id,
                              chunks |-> chunks, signature |-> signature]
          /\ stored_indexes' = Upsert(stored_indexes, document_id, chunks, signature, scores)
    /\ library_result' = NoLibraryResult
    /\ UNCHANGED <<active_runs, pause_event, spec, files_by_node, openai, pc, ordered_nodes, idx,
                   outputs, pending, tokens, events, response, chunker_input,
                   inflight, embedded>>

\* a call of Bm25IndexStore.search
search ==
    /\ \E query \in SearchQueries, top_k \in 1..MaxTopK, document_ids \in DocumentIdLists :
          /\ library_call' = [op |-> "search", query |-> query, top_k |-> top_k,
                              document_ids |-> document_ids]
          /\ library_result' = StoreSearch(stored_indexes, query, top_k, document_ids)
    /\ UNCHANGED <<active_runs, pause_event, spec, files_by_node, openai, pc, ordered_nodes, idx,
                   outputs, pending, tokens, events, response, stored_indexes,
                   chunker_input, inflight, embedded>>

\* a call of PipelineRuntime.bm25_search
bm25_search ==
    /\ \E query \in SearchQueries, top_k \in 1..MaxTopK, document_ids \in DocumentIdLists :
          /\ library_call' = [op |-> "bm25_search", query |-> query, top_k |-> top_k,
                              document_ids |-> document_ids]
          /\ library_result' = RuntimeBm25Search(stored_indexes, query, top_k, document_ids)
    /\ UNCHANGED <<active_runs, pause_event, spec, files_by_node, openai, pc, ordered_nodes, idx,
                   outputs, pending, tokens, events, response, stored_indexes,
                   chunker_input, inflight, embedded>>

IndexNext == upsert \/ search \/ bm25_search

IndexSpec == Init /\ [][IndexNext]_vars

\* ---------------------------------------------------------------- the chunker on its own
\* chunk_pdf_blocks and chunk_text_pages called on an extracted document. A text is a
\* sequence of atoms: a word, written after white space, or a punctuation mark, written
\* against what precedes it. The text of a chunk is the sequence of the texts of its
\* segments, which the program joins with newlines.
MaxTarget == 3
MaxOverlap == 2
MaxBlocks == 3
MaxLines == 3

Glued(atom) == atom \in {".", "!", "?"}

RECURSIVE GroupWords(_, _)
\* str.split(): the words of a text, each the atoms written without white space between
GroupWords(text, words) ==
    IF text = << >> THEN words
    ELSE IF words # << >> /\ Glued(Head(text))
         THEN GroupWords(Tail(text),
                         [words EXCEPT ![Len(words)] = Append(words[Len(words)], Head(text))])
         ELSE GroupWords(Tail(text), Append(words, <<Head(text)>>))

\* the tokenizers a _Tokenizer may end up with: tiktoken's cl100k_base when the import
\* and get_encoding succeed, str.split otherwise
Tokenizers == {"tiktoken", "split"}

\* _Tokenizer.encode: a token is the atoms it covers; the encoding gives a word and a
\* punctuation mark a token each
Encode(tokenizer, text) ==
    IF tokenizer = "split" THEN GroupWords(text, << >>)
    ELSE [i \in 1..Len(text) |-> <<text[i]>>]

\* _Tokenizer.decode, stripped
Decode(tokenizer, encoded) == Concat(encoded)

RECURSIVE BlockSentences(_, _)
\* _SENTENCE_SPLIT_RE.split: a text is cut at the white space that follows . ! or ?
BlockSentences(text, current) ==
    IF text = << >> THEN (IF current = << >> THEN << >> ELSE <<current>>)
    ELSE IF current # << >> /\ Glued(current[Len(current)]) /\ ~Glued(Head(text))
         THEN <<current>> \o BlockSentences(Tail(text), <<Head(text)>>)
         ELSE BlockSentences(Tail(text), Append(current, Head(text)))

\* _BlockSegment
BlockSegment(block, segment_index, text, token_count) ==
    [page_number |-> block.page_number, first |-> block.block_no, last |-> block.block_no,
     segment_index |-> segment_index, bounding_box |-> block.bounding_box, text |-> text,
     token_count |-> token_count]

\* flush of _split_oversized_block
Flush(block, st) ==
    IF st.current = << >> \/ Concat(st.current) = << >> THEN st
    ELSE [segments |-> Append(st.segments,
                              BlockSegment(block, st.segment_index, Concat(st.current),
                                           st.current_tokens)),
          segment_index |-> st.segment_index + 1, current |-> << >>, current_tokens |-> 0]

\* the slices tokens[offset : offset + token_target] for offset in range(0, len, token_target)
TokenSlices(encoded, token_target) ==
    [k \in 1..((Len(encoded) + token_target - 1) \div token_target) |->
        SubSeq(encoded, (k - 1) * token_target + 1,
               IF k * token_target < Len(encoded) THEN k * token_target ELSE Len(encoded))]

\* the hard split of a sentence that is longer than token_target
HardSplitSentence(block, tokenizer, token_target, sentence_tokens, st) ==
    LET slices == TokenSlices(sentence_tokens, token_target)
    IN  [st EXCEPT
           !.segments = st.segments \o
               [k \in 1..Len(slices) |->
                   BlockSegment(block, st.segment_index + k - 1,
                                Decode(tokenizer, slices[k]), Len(slices[k]))],
           !.segment_index = st.segment_index + Len(slices)]

RECURSIVE SplitSentenceLoop(_, _, _, _, _)
\* the loop of _split_oversized_block over the sentences (segment_index is never
\* negative: the test has the state computed before the loop goes on)
SplitSentenceLoop(block, tokenizer, token_target, sentences, st) ==
    IF sentences = << >> \/ st.segment_index < 0 THEN Flush(block, st).segments
    ELSE LET sentence == Head(sentences)
             sentence_tokens == Encode(tokenizer, sentence)
             flushed == IF st.current_tokens + Len(sentence_tokens) > token_target
                           /\ st.current # << >>
                        THEN Flush(block, st) ELSE st
         IN  IF Len(sentence_tokens) > token_target
             THEN SplitSentenceLoop(block, tokenizer, token_target, Tail(sentences),
                                    HardSplitSentence(block, tokenizer, token_target,
                                                      sentence_tokens, Flush(block, st)))
             ELSE SplitSentenceLoop(block, tokenizer, token_target, Tail(sentences),
                                    [flushed EXCEPT
                                       !.current = Append(flushed.current, sentence),
                                       !.current_tokens = flushed.current_tokens
                                                          + Len(sentence_tokens)])

\* _split_oversized_block
SplitOversizedBlock(block, tokenizer, token_target) ==
    LET encoded == Encode(tokenizer, block.text)
    IN  IF Len(encoded) <= token_target
        THEN <<BlockSegment(block, 0, block.text, Len(encoded))>>
        ELSE SplitSentenceLoop(block, tokenizer, token_target,
                               BlockSentences(block.text, << >>),
                               [segments |-> << >>, segment_index |-> 0,
                                current |-> << >>, current_tokens |-> 0])

\* _LineSegment; line_no is the number of the line in the page, from 1
LineSegment(page_number, line_no, text, token_count) ==
    [page_number |-> page_number, first |-> line_no, last |-> line_no, segment_index |-> 0,
     bounding_box |-> <<0, 0, 0, 0>>, text |-> text, token_count |-> token_count]

\* the segments chunk_text_pages makes of one line: none of a blank line, the line when
\* it fits in token_target, else its hard split
LineSegments(page_number, line_no, line, tokenizer, token_target) ==
    LET encoded == Encode(tokenizer, line)
        slices == TokenSlices(encoded, token_target)
    IN  IF line = << >> THEN << >>
        ELSE IF Len(encoded) <= token_target
        THEN <<LineSegment(page_number, line_no, line, Len(encoded))>>
        ELSE [k \in 1..Len(slices) |->
                LineSegment(page_number, line_no, Decode(tokenizer, slices[k]), Len(slices[k]))]

MinOf(S) == CHOOSE x \in S : \A y \in S : x <= y
MaxOf(S) == CHOOSE x \in S : \A y \in S : x >= y

\* _union_bbox
UnionBbox(boxes) ==
    <<MinOf({box[1] : box \in boxes}), MinOf({box[2] : box \in boxes}),
      MaxOf({box[3] : box \in boxes}), MaxOf({box[4] : box \in boxes})>>

RECURSIVE SumTokens(_)
\* sum(seg.token_count for seg in segments)
SumTokens(segments) ==
    IF segments = << >> THEN 0 ELSE Head(segments).token_count + SumTokens(Tail(segments))

\* "\n".join(seg.text for seg in current_segments).strip(): the texts of the segments,
\* without the empty ones at both ends
JoinedText(segments) ==
    LET filled == {i \in 1..Len(segments) : segments[i].text # << >>}
    IN  IF filled = {} THEN << >>
        ELSE [i \in 1..(MaxOf(filled) - MinOf(filled) + 1) |->
                 segments[MinOf(filled) + i - 1].text]

\* _sha256_hex(f"{document_id}:{page_number}:{chunk_index}:{text}"): the digest stands
\* for what it is taken of
ChunkId(document_id, page_number, chunk_index, text) ==
    <<document_id, page_number, chunk_index, text>>

RECURSIVE OverlapLoop(_, _, _, _)
\* the loop of finalize_current over reversed(current_segments)
OverlapLoop(remaining, overlap, overlap_token_count, overlap_tokens) ==
    IF remaining = << >> THEN overlap
    ELSE LET seg == remaining[Len(remaining)]
             count == overlap_token_count + seg.token_count
         IN  IF count >= overlap_tokens THEN <<seg>> \o overlap
             ELSE OverlapLoop(SubSeq(remaining, 1, Len(remaining) - 1), <<seg>> \o overlap,
                              count, overlap_tokens)

\* finalize_current of chunk_pdf_blocks and of chunk_text_pages; closed records the
\* segments each chunk is made of. preview_text, a prefix of text, is left out.
FinalizeCurrent(request, page_number, st) ==
    IF st.current_segments = << >> THEN st
    ELSE IF JoinedText(st.current_segments) = << >>
    THEN [st EXCEPT !.current_segments = << >>, !.current_tokens = 0]
    ELSE LET overlap == OverlapLoop(st.current_segments, << >>, 0, request.overlap_tokens)
         IN [st EXCEPT
               !.chunks = Append(st.chunks,
                   [chunk_id |-> ChunkId(request.document_id, page_number, st.chunk_index,
                                         JoinedText(st.current_segments)),
                    page_number |-> page_number,
                    chunk_index |-> st.chunk_index,
                    token_count |-> st.current_tokens,
                    citation_span |-> <<page_number,
                                        MinOf({seg.first : seg \in Range(st.current_segments)}),
                                        MaxOf({seg.last : seg \in Range(st.current_segments)})>>,
                    bounding_box |-> UnionBbox({seg.bounding_box :
                                                   seg \in Range(st.current_segments)}),
                    text |-> JoinedText(st.current_segments)]),
               !.closed = Append(st.closed, st.current_segments),
               !.chunk_index = st.chunk_index + 1,
               !.current_segments = overlap,
               !.current_tokens = SumTokens(overlap)]

AddSegment_KeepsOverlap(request, page_number, seg, st) ==
    LET exceeds(s) == s.current_segments # << >>
                      /\ s.current_tokens + seg.token_count > request.token_target
        finalized == IF exceeds(st) THEN FinalizeCurrent(request, page_number, st) ELSE st
    IN  [finalized EXCEPT !.current_segments = Append(finalized.current_segments, seg),
                          !.current_tokens = finalized.current_tokens + seg.token_count]

\* the body of the loop over the segments of a page
AddSegment(request, page_number, seg, st) ==
    LET exceeds(s) == s.current_segments # << >>
                      /\ s.current_tokens + seg.token_count > request.token_target
        finalized == IF exceeds(st) THEN FinalizeCurrent(request, page_number, st) ELSE st
        room == IF exceeds(finalized)
                THEN [finalized EXCEPT !.current_segments = << >>, !.current_tokens = 0]
                ELSE finalized
    IN  [room EXCEPT !.current_segments = Append(room.current_segments, seg),
                     !.current_tokens = room.current_tokens + seg.token_count]

RECURSIVE AddSegments(_, _, _, _)
\* the loop over the segments of a page (chunk_index is never negative: the test has the
\* state computed before the loop goes on)
AddSegments(request, page_number, segments, st) ==
    IF segments = << >> \/ st.chunk_index < 0 THEN st
    ELSE AddSegments(request, page_number, Tail(segments),
                     AddSegment(request, page_number, Head(segments), st))

\* mutant: the chunk that is open at the end of a page is dropped
ChunkPage_DropsOpenChunk(request, page_number, segments, st) ==
    LET filled == AddSegments(request, page_number, segments, st)
    IN  [filled EXCEPT !.current_segments = << >>, !.current_tokens = 0]

\* one page: its segments accumulated, the last chunk closed, and nothing carried over
ChunkPage(request, page_number, segments, st) ==
    LET filled == FinalizeCurrent(request, page_number,
                                  AddSegments(request, page_number, segments, st))
    IN  [filled EXCEPT !.current_segments = << >>, !.current_tokens = 0]

RECURSIVE ChunkPages(_, _, _)
\* the loop over the pages; page_segments is a list of <<page_number, segments>>
\* (chunk_index is never negative, as above)
ChunkPages(request, page_segments, st) ==
    IF page_segments = << >> \/ st.chunk_index < 0 THEN st
    ELSE ChunkPages(request, Tail(page_segments),
                    ChunkPage(request, Head(page_segments)[1], Head(page_segments)[2], st))

NoChunks == [chunks |-> << >>, closed |-> << >>, chunk_index |-> 0,
             current_segments |-> << >>, current_tokens |-> 0]

\* the segments of a page of blocks: the blocks of the page in reading order, each split
PdfPageSegments(blocks, page_number, tokenizer, token_target) ==
    LET page_blocks == SelectSeq(blocks, LAMBDA block : block.page_number = page_number)
        sorted == SortByKey(page_blocks,
                            [i \in 1..Len(page_blocks) |->
                                <<page_blocks[i].bounding_box[2], page_blocks[i].bounding_box[1],
                                  page_blocks[i].block_no>>])
    IN  Concat([i \in 1..Len(sorted) |->
                   SplitOversizedBlock(sorted[i], tokenizer, token_target)])

\* the pages of chunk_pdf_blocks, sorted(blocks_by_page.keys()), each with its segments
PdfPages(request, tokenizer) ==
    LET page_numbers == SortedSeq({request.blocks[i].page_number :
                                      i \in 1..Len(request.blocks)})
    IN  [p \in 1..Len(page_numbers) |->
            <<page_numbers[p],
              PdfPageSegments(request.blocks, page_numbers[p], tokenizer,
                              request.token_target)>>]

\* chunk_pdf_blocks
ChunkPdfBlocks(request, tokenizer) ==
    LET done == ChunkPages(request, PdfPages(request, tokenizer), NoChunks)
    IN  [chunks |-> done.chunks, closed |-> done.closed]

\* the segments of a page of lines
TextPageSegments(page, tokenizer, token_target) ==
    Concat([i \in 1..Len(page.lines) |->
               LineSegments(page.page_number, i, page.lines[i], tokenizer, token_target)])

\* the pages of chunk_text_pages, as given, each with its segments
TextPages(request, tokenizer) ==
    [p \in 1..Len(request.pages) |->
        <<request.pages[p].page_number,
          TextPageSegments(request.pages[p], tokenizer, request.token_target)>>]

\* chunk_text_pages
ChunkTextPages(request, tokenizer) ==
    LET done == ChunkPages(request, TextPages(request, tokenizer), NoChunks)
    IN  [chunks |-> done.chunks, closed |-> done.closed]

\* the texts of the blocks and of the lines: "a", "a. b. a b", and a blank line
BlockTexts == {<<"a">>, <<"a", ".", "b", ".", "a", "b">>}
LineTexts == {<<"a">>, << >>, <<"a", ".", "b", ".", "a", "b">>}
PageNumbers == {1, 2}

\* PdfTextBlock
PdfTextBlock(page_number, block_no, y0, text) ==
    [page_number |-> page_number, block_no |-> block_no,
     bounding_box |-> <<0, y0, 10, y0 + 1>>, text |-> text]

\* the lists of blocks of a document: numbered as listed, on any page, laid out down the
\* page or up the page
BlockLists ==
    UNION {{[i \in 1..n |-> PdfTextBlock(on_page[i], i - 1,
                                         IF layout = "down" THEN i - 1 ELSE n - i,
                                         texts[i])] :
               texts \in [1..n -> BlockTexts], on_page \in [1..n -> PageNumbers],
               layout \in {"down", "up"}} :
           n \in 0..MaxBlocks}

\* PageText
PageText(page_number, lines) == [page_number |-> page_number, lines |-> lines]

\* the lists of pages of a document: its lines on one page, or cut into two pages
PageLists ==
    UNION {{IF cut = Len(lines) THEN <<PageText(1, lines)>>
            ELSE <<PageText(1, SubSeq(lines, 1, cut)),
                   PageText(2, SubSeq(lines, cut + 1, Len(lines)))>> :
               cut \in 0..Len(lines)} :
           lines \in SeqsUpTo(LineTexts, MaxLines)}

\* the arguments of chunk_pdf_blocks and of chunk_text_pages
ChunkerInputs ==
    {[kind |-> "pdf", document_id |-> "d1", blocks |-> blocks, pages |-> << >>,
      token_target |-> token_target, overlap_tokens |-> overlap_tokens] :
        blocks \in BlockLists, token_target \in 1..MaxTarget,
        overlap_tokens \in 0..MaxOverlap}
    \cup
    {[kind |-> "text", document_id |-> "d1", blocks |-> << >>, pages |-> pages,
      token_target |-> token_target, overlap_tokens |-> overlap_tokens] :
        pages \in PageLists, token_target \in 1..MaxTarget,
        overlap_tokens \in 0..MaxOverlap}

\* a document has been extracted and is about to be chunked
ChunkInit ==
    /\ active_runs = {}
    /\ pause_event = TRUE
    /\ spec = NoSpec
    /\ files_by_node = {}
    /\ openai = "no_key"
    /\ library_call = NoLibraryCall
    /\ library_result = NoLibraryResult
    /\ stored_indexes = NoIndexes
    /\ chunker_input \in ChunkerInputs
    /\ inflight = NoInflight
    /\ embedded = NoEmbedded
    /\ pc = "idle"
    /\ ordered_nodes = << >>
    /\ idx = 0
    /\ outputs = NoOutputs
    /\ pending = NoOutput
    /\ tokens = 0
    /\ events = << >>
    /\ response = NoResponse

\* a call of chunk_pdf_blocks: tokenizer is what its _Tokenizer() ends up with
chunk_pdf_blocks ==
    /\ chunker_input.kind = "pdf"
    /\ \E tokenizer \in Tokenizers :
          /\ library_call' = [op |-> "chunk_pdf_blocks", tokenizer |-> tokenizer]
          /\ library_result' = ChunkPdfBlocks(chunker_input, tokenizer)
    /\ UNCHANGED <<active_runs, pause_event, spec, files_by_node, openai, pc, ordered_nodes, idx,
                   outputs, pending, tokens, events, response, stored_indexes,
                   chunker_input, inflight, embedded>>

\* a call of chunk_text_pages
chunk_text_pages ==
    /\ chunker_input.kind = "text"
    /\ \E tokenizer \in Tokenizers :
          /\ library_call' = [op |-> "chunk_text_pages", tokenizer |-> tokenizer]
          /\ library_result' = ChunkTextPages(chunker_input, tokenizer)
    /\ UNCHANGED <<active_runs, pause_event, spec, files_by_node, openai, pc, ordered_nodes, idx,
                   outputs, pending, tokens, events, response, stored_indexes,
                   chunker_input, inflight, embedded>>

ChunkNext == chunk_pdf_blocks \/ chunk_text_pages

ChunkSpec == ChunkInit /\ [][ChunkNext]_vars

\* ---------------------------------------------------------------- the orchestrator's citations
\* RagAgentOrchestrator._build_citations on its own. The quote of a citation is cut
\* after 240 characters and two quotes are told apart by their first 160 characters,
\* so a text is followed here character by character: it is a sequence of runs
\* <<character, length>> in which no two neighbouring runs are of the same character.
MaxCited == 3

quote_limit == 240
prefix_len == 160

Ellipsis == "ellipsis"

\* the characters str.split() cuts at
WhiteSpace(ch) == ch \in {" ", "\n"}

RECURSIVE Canonical(_)
\* the same characters with neighbouring runs of one character made one run
Canonical(text) ==
    IF Len(text) < 2 THEN text
    ELSE LET rest == Canonical(Tail(text))
         IN  IF Head(text)[1] = Head(rest)[1]
             THEN <<(<<Head(text)[1], Head(text)[2] + Head(rest)[2]>>)>> \o Tail(rest)
             ELSE <<Head(text)>> \o rest

RECURSIVE TextLen(_)
\* len(text)
TextLen(text) == IF text = << >> THEN 0 ELSE Head(text)[2] + TextLen(Tail(text))

RECURSIVE TextPrefix(_, _)
\* text[:n]
TextPrefix(text, n) ==
    IF text = << >> \/ n <= 0 THEN << >>
    ELSE IF Head(text)[2] >= n THEN <<(<<Head(text)[1], n>>)>>
    ELSE <<Head(text)>> \o TextPrefix(Tail(text), n - Head(text)[2])

RECURSIVE RStripText(_)
\* text.rstrip()
RStripText(text) ==
    IF text # << >> /\ WhiteSpace(text[Len(text)][1])
    THEN RStripText(SubSeq(text, 1, Len(text) - 1))
    ELSE text

RECURSIVE SplitWords(_, _)
\* text.split(): the stretches of text between white space; current is the stretch
\* read so far
SplitWords(text, current) ==
    LET closed == IF current = << >> THEN << >> ELSE <<current>>
    IN  IF text = << >> THEN closed
        ELSE IF WhiteSpace(Head(text)[1]) THEN closed \o SplitWords(Tail(text), << >>)
        ELSE SplitWords(Tail(text), Append(current, Head(text)))

\* _normalize_inline_whitespace: " ".join(text.split()).strip()
NormalizeInlineWhitespace(text) == Join(<<" ", 1>>, SplitWords(text, << >>))

\* str.lower() of a character
LowerChar(ch) == IF ch = "A" THEN "a" ELSE ch

\* str.lower() of a text
LowerRuns(text) == Canonical([i \in 1..Len(text) |-> <<LowerChar(text[i][1]), text[i][2]>>])

\* _quote_fingerprint
QuoteFingerprint(text) ==
    LET normalized == LowerRuns(NormalizeInlineWhitespace(text))
    IN  IF TextLen(normalized) <= prefix_len THEN normalized
        ELSE TextPrefix(normalized, prefix_len)

\* _truncate_quote
TruncateQuote(text) ==
    LET cleaned == NormalizeInlineWhitespace(text)
    IN  IF TextLen(cleaned) <= quote_limit THEN cleaned
        ELSE Append(RStripText(TextPrefix(cleaned, quote_limit)), <<Ellipsis, 1>>)

\* RagCitation
RagCitation(chunk, supporting_quote) ==
    [document_id |-> chunk.document_id, chunk_id |-> chunk.chunk_id,
     supporting_quote |-> supporting_quote, source_tool |-> chunk.source_tool]

RECURSIVE BuildCitationsLoop(_, _, _, _)
\* the loop of _build_citations over the evidence
BuildCitationsLoop(evidence, citations, seen_chunks, seen_quotes) ==
    IF evidence = << >> THEN citations
    ELSE LET chunk == Head(evidence)
             key == <<chunk.document_id, chunk.chunk_id>>
             supporting_quote == TruncateQuote(chunk.text)
             quote_key == <<chunk.document_id, QuoteFingerprint(supporting_quote)>>
         IN  IF key \in seen_chunks
             THEN BuildCitationsLoop(Tail(evidence), citations, seen_chunks, seen_quotes)
             ELSE IF supporting_quote = << >>
             THEN BuildCitationsLoop(Tail(evidence), citations, seen_chunks \cup {key},
                                     seen_quotes)
             ELSE IF quote_key \in seen_quotes
             THEN BuildCitationsLoop(Tail(evidence), citations, seen_chunks \cup {key},
                                     seen_quotes)
             ELSE BuildCitationsLoop(Tail(evidence),
                                     Append(citations, RagCitation(chunk, supporting_quote)),
                                     seen_chunks \cup {key}, seen_quotes \cup {quote_key})

\* _build_citations with every quote taken for a new one
BuildCitations_EveryChunk(evidence) ==
    LET chunks == DedupeEvidence(evidence)
        cited == SelectSeq(chunks, LAMBDA chunk : TruncateQuote(chunk.text) # << >>)
    IN  [i \in 1..Len(cited) |-> RagCitation(cited[i], TruncateQuote(cited[i].text))]

\* RagAgentOrchestrator._build_citations
BuildCitations(evidence) == BuildCitationsLoop(evidence, << >>, {}, {})

\* the texts of the chunks the retrieval tools collect, none of them blank (read_page
\* heads every text with the page, the chunker drops empty segments): two texts alike
\* in their first 160 characters, a third like them but for capitals and line breaks,
\* one that differs at the 160th character, one longer than a quote and a short one
CitedTexts ==
    <<(<<(<<"a", 160>>), (<<" ", 1>>), (<<"x", 3>>)>>),
      (<<(<<"a", 160>>), (<<" ", 1>>), (<<"y", 3>>)>>),
      (<<(<<"A", 1>>), (<<"a", 159>>), (<<" ", 2>>), (<<"\n", 1>>), (<<"x", 3>>)>>),
      (<<(<<"a", 159>>), (<<" ", 1>>), (<<"x", 3>>)>>),
      (<<(<<"a", 239>>), (<<" ", 1>>), (<<"b", 20>>)>>),
      (<<(<<"x", 3>>)>>)>>

\* a chunk a tool collected: its id names the page or the lines read, and so its text
CitedChunk(document_id, n) == Chunk(document_id, <<document_id, "page", n>>, CitedTexts[n],
                                    "read_document")

CitedChunks ==
    {CitedChunk("d1", n) : n \in 1..Len(CitedTexts)} \cup {CitedChunk("d2", n) : n \in {1, 2}}

\* _build_citations is called with the evidence the tools collected
build_citations ==
    /\ library_call = NoLibraryCall
    /\ \E evidence \in SeqsUpTo(CitedChunks, MaxCited) :
          /\ library_call' = [op |-> "build_citations", evidence |-> evidence]
          /\ library_result' = BuildCitations(evidence)
    /\ UNCHANGED <<active_runs, pause_event, spec, files_by_node, openai, pc, ordered_nodes, idx,
                   outputs, pending, tokens, events, response, stored_indexes,
                   chunker_input, inflight, embedded>>

CitationNext == build_citations

CitationSpec == Init /\ [][CitationNext]_vars

\* ---------------------------------------------------------------- rank fusion
\* reciprocal_rank_fusion on its own. A fused score is a sum of fractions
\* weight / (k + rank); it is kept here as the whole number of times it holds
\* 1 / ScoreUnit(k), ScoreUnit(k) being the product of all the k + rank that occur,
\* so that sums and comparisons are exact.
MaxLists == 2
MaxRank == 2

rrf_k == 60
rrf_top_k == 8

\* the chunk ids, in ascending order
FusedIds == <<"A", "B", "C", "D", "E", "F", "G", "H", "I">>
IdRank(chunk_id) == CHOOSE i \in 1..Len(FusedIds) : FusedIds[i] = chunk_id

\* an EvidenceChunk a search returned
FusedChunk(chunk_id, text, source_tool, score) ==
    [document_id |-> "d1", chunk_id |-> chunk_id, text |-> text, source_tool |-> source_tool,
     score |-> score]

\* the chunks the searches return: B is returned by the vector search as well, with
\* the text the vector store holds for it
SearchedChunks ==
    {FusedChunk("A", "a", "bm25_search", 0), FusedChunk("B", "b", "bm25_search", 0),
     FusedChunk("B", "b stored", "vector_search", 0), FusedChunk("C", "c", "bm25_search", 0)}

ChunkKey(chunk) == <<chunk.document_id, chunk.chunk_id>>

\* the result lists of a search: no chunk twice in one list
RankedLists ==
    {list \in SeqsUpTo(SearchedChunks, MaxRank) :
        \A i, j \in 1..Len(list) : i # j => ChunkKey(list[i]) # ChunkKey(list[j])}

\* nine chunks in two lists, one more than the default top_k
ManyChunks ==
    <<[i \in 1..5 |-> FusedChunk(FusedIds[i], "text", "bm25_search", 0)],
      [i \in 1..4 |-> FusedChunk(FusedIds[5 + i], "text", "bm25_search", 0)]>>

LongestList == Len(ManyChunks[1])

RECURSIVE ScoreUnitUpTo(_, _)
ScoreUnitUpTo(k, rank) == IF rank = 0 THEN 1 ELSE (k + rank) * ScoreUnitUpTo(k, rank - 1)

ScoreUnit(k) == ScoreUnitUpTo(k, Max(MaxRank, LongestList))

\* float(weights.get(chunk.source_tool, 1.0))
Weight(weights, source_tool) ==
    IF source_tool \in DOMAIN weights THEN weights[source_tool] ELSE 1

\* weight / (k + rank)
Term(weight, k, rank) == weight * (ScoreUnit(k) \div (k + rank))

\* the loops take the first chunk of every key for its exemplar; here the last
FuseChunk_LastExemplar(chunk, rank, k, weights, st) ==
    LET key == ChunkKey(chunk)
        term == Term(Weight(weights, chunk.source_tool), k, rank)
    IN  IF key \in DOMAIN st.fused_scores
        THEN [st EXCEPT !.fused_scores[key] = @ + term, !.exemplar[key] = chunk]
        ELSE [keys |-> Append(st.keys, key),
              fused_scores |-> (key :> term) @@ st.fused_scores,
              exemplar |-> (key :> chunk) @@ st.exemplar]

\* the body of the inner loop: fused_scores[key] += weight / (k + rank) and
\* exemplar.setdefault(key, chunk); keys is the insertion order of the two dicts
FuseChunk(chunk, rank, k, weights, st) ==
    LET key == ChunkKey(chunk)
        term == Term(Weight(weights, chunk.source_tool), k, rank)
    IN  IF key \in DOMAIN st.fused_scores
        THEN [st EXCEPT !.fused_scores[key] = @ + term]
        ELSE [keys |-> Append(st.keys, key),
              fused_scores |-> (key :> term) @@ st.fused_scores,
              exemplar |-> (key :> chunk) @@ st.exemplar]

RECURSIVE FuseList(_, _, _, _, _)
\* for rank, chunk in enumerate(evidence, start=1)
FuseList(evidence, rank, k, weights, st) ==
    IF rank > Len(evidence) \/ Len(st.keys) < 0 THEN st
    ELSE FuseList(evidence, rank + 1, k, weights, FuseChunk(evidence[rank], rank, k, weights, st))

RECURSIVE FuseLists(_, _, _, _)
\* for evidence in evidence_lists
FuseLists(evidence_lists, k, weights, st) ==
    IF evidence_lists = << >> THEN st
    ELSE FuseLists(Tail(evidence_lists), k, weights,
                   FuseList(Head(evidence_lists), 1, k, weights, st))

\* reciprocal_rank_fusion
ReciprocalRankFusion(evidence_lists, k, tool_weights, top_k) ==
    LET st == FuseLists(evidence_lists, k, tool_weights,
                        [keys |-> << >>, fused_scores |-> << >>, exemplar |-> << >>])
        merged == [i \in 1..Len(st.keys) |->
                      [st.exemplar[st.keys[i]] EXCEPT !.score = st.fused_scores[st.keys[i]]]]
        sorted == SortByKey(merged, [i \in 1..Len(merged) |->
                                        <<0 - merged[i].score, IdRank(merged[i].chunk_id)>>])
    IN  Take(sorted, Max(1, top_k))

\* the calls: lists of the searches, or the nine chunks; k is left at its default
FusionRequests ==
    [evidence_lists : SeqsUpTo(RankedLists, MaxLists) \cup {ManyChunks},
     k : {rrf_k},
     tool_weights : {<< >>, [tool \in {"vector_search"} |-> 2]},
     top_k : {0, 2, rrf_top_k}]

\* a caller merges the results of its searches
reciprocal_rank_fusion ==
    /\ library_call = NoLibraryCall
    /\ \E request \in FusionRequests :
          /\ library_call' = [op |-> "reciprocal_rank_fusion", request |-> request]
          /\ library_result' = ReciprocalRankFusion(request.evidence_lists, request.k,
                                                    request.tool_weights, request.top_k)
    /\ UNCHANGED <<active_runs, pause_event, spec, files_by_node, openai, pc, ordered_nodes, idx,
                   outputs, pending, tokens, events, response, stored_indexes,
                   chunker_input, inflight, embedded>>

FusionNext == reciprocal_rank_fusion

FusionSpec == Init /\ [][FusionNext]_vars

\* ---------------------------------------------------------------- in-flight markers
\* OpenAIVectorStorePersistence: _inflight_documents (documents) and
\* _inflight_started_at (started_at) under _inflight_lock, with the monotonic clock
\* (now, in seconds) and the TTL the instance was built with (ttl). held_since records,
\* for the documents whose last successful acquire no release has followed, the time
\* of that acquire. Every method body runs under the lock and is one step.
MaxTtl == 2
MaxClock == 3
MaxJobs == 3

InflightDocuments == {"d1", "d2"}

\* dict.pop(key, None)
Without(dict, key) == [other \in DOMAIN dict \ {key} |-> dict[other]]

\* _expire_stale_inflight_locked
ExpireStaleInflightLocked(state, document_id, now) ==
    IF document_id \notin DOMAIN state.started_at THEN state
    ELSE IF now - state.started_at[document_id] <= state.ttl THEN state
    ELSE [state EXCEPT !.documents = @ \ {document_id},
                       !.started_at = Without(@, document_id)]

\* try_acquire_inflight with the marker taken although it is held
TryAcquireInflight_Always(state, document_id) ==
    [state |-> [state EXCEPT !.documents = @ \cup {document_id},
                             !.started_at = (document_id :> state.now) @@ @],
     returned |-> TRUE]

\* try_acquire_inflight
TryAcquireInflight(state, document_id) ==
    LET unexpired == ExpireStaleInflightLocked(state, document_id, state.now)
    IN  IF document_id \in unexpired.documents
        THEN [state |-> unexpired, returned |-> FALSE]
        ELSE [state |-> [unexpired EXCEPT !.documents = @ \cup {document_id},
                                          !.started_at = (document_id :> state.now) @@ @],
              returned |-> TRUE]

\* release_inflight
ReleaseInflight(state, document_id) ==
    [state EXCEPT !.documents = @ \ {document_id}, !.started_at = Without(@, document_id)]

\* is_inflight
IsInflight(state, document_id) ==
    LET unexpired == ExpireStaleInflightLocked(state, document_id, state.now)
    IN  [state |-> unexpired, returned |-> document_id \in unexpired.documents]

\* an instance was built with its TTL: max(1, inflight_ttl_seconds)
InflightInit ==
    /\ active_runs = {}
    /\ pause_event = TRUE
    /\ spec = NoSpec
    /\ files_by_node = {}
    /\ openai = "no_key"
    /\ library_call = NoLibraryCall
    /\ library_result = NoLibraryResult
    /\ stored_indexes = NoIndexes
    /\ chunker_input = NoChunkerInput
    /\ inflight \in {[NoInflight EXCEPT !.ttl = ttl] : ttl \in 1..MaxTtl}
    /\ embedded = NoEmbedded
    /\ pc = "idle"
    /\ ordered_nodes = << >>
    /\ idx = 0
    /\ outputs = NoOutputs
    /\ pending = NoOutput
    /\ tokens = 0
    /\ events = << >>
    /\ response = NoResponse

\* a caller calls try_acquire_inflight
try_acquire_inflight ==
    /\ \E document_id \in InflightDocuments :
          \E call \in {TryAcquireInflight(inflight, document_id)} :
             /\ library_call' = [op |-> "try_acquire_inflight", document_id |-> document_id]
             /\ library_result' = call.returned
             /\ inflight' = [call.state EXCEPT
                                !.held_since = IF call.returned
                                               THEN (document_id :> inflight.now) @@ @
                                               ELSE @]
    /\ UNCHANGED <<active_runs, pause_event, spec, files_by_node, openai, pc, ordered_nodes, idx,
                   outputs, pending, tokens, events, response, stored_indexes,
                   chunker_input, embedded>>

\* a caller calls release_inflight
release_inflight ==
    /\ \E document_id \in InflightDocuments :
          /\ library_call' = [op |-> "release_inflight", document_id |-> document_id]
          /\ inflight' = [ReleaseInflight(inflight, document_id) EXCEPT
                             !.held_since = Without(@, document_id)]
    /\ library_result' = NoLibraryResult
    /\ UNCHANGED <<active_runs, pause_event, spec, files_by_node, openai, pc, ordered_nodes, idx,
                   outputs, pending, tokens, events, response, stored_indexes,
                   chunker_input, embedded>>

\* a caller calls is_inflight
is_inflight ==
    /\ \E document_id \in InflightDocuments :
          \E call \in {IsInflight(inflight, document_id)} :
             /\ library_call' = [op |-> "is_inflight", document_id |-> document_id]
             /\ library_result' = call.returned
             /\ inflight' = call.state
    /\ UNCHANGED <<active_runs, pause_event, spec, files_by_node, openai, pc, ordered_nodes, idx,
                   outputs, pending, tokens, events, response, stored_indexes,
                   chunker_input, embedded>>

\* a second passes on the monotonic clock
Tick ==
    /\ inflight.now < MaxClock
    /\ inflight' = [inflight EXCEPT !.now = @ + 1]
    /\ UNCHANGED <<active_runs, pause_event, spec, files_by_node, openai, pc, ordered_nodes, idx,
                   outputs, pending, tokens, events, response, library_call, library_result,
                   stored_indexes, chunker_input, embedded>>

InflightNext == try_acquire_inflight \/ release_inflight \/ is_inflight \/ Tick

InflightSpec == InflightInit /\ [][InflightNext]_vars

\* ---------------------------------------------------------------- vector-store persist jobs
\* POST /documents/{id}/persist/vector-store and the background task it queues. The
\* documents exist in the repository and their chunks do not change; persisted holds
\* the documents whose vector-store record carries the signature of their chunks. A
\* job is [document_id, acquired_at, state], state being queued, running or done.
Job(document_id, acquired_at) ==
    [document_id |-> document_id, acquired_at |-> acquired_at, state |-> "queued"]

\* the handler persist_vector_store; add_task appends to a list and does not raise
persist_vector_store ==
    /\ \E document_id \in InflightDocuments :
          \E call \in {TryAcquireInflight(inflight, document_id)} :
             /\ library_call' = [op |-> "persist_vector_store", document_id |-> document_id]
             /\ IF document_id \in inflight.persisted
                THEN /\ library_result' = "ok"
                     /\ inflight' = inflight
                ELSE IF ~call.returned
                THEN /\ library_result' = "queued"
                     /\ inflight' = call.state
                ELSE /\ Len(inflight.jobs) < MaxJobs
                     /\ library_result' = "queued"
                     /\ inflight' = [call.state EXCEPT
                                        !.jobs = Append(@, Job(document_id, inflight.now))]
    /\ UNCHANGED <<active_runs, pause_event, spec, files_by_node, openai, pc, ordered_nodes, idx,
                   outputs, pending, tokens, events, response, stored_indexes,
                   chunker_input, embedded>>

\* the thread pool starts a queued task: persist_in_background calls persist
StartJob ==
    /\ \E i \in 1..Len(inflight.jobs) :
          /\ inflight.jobs[i].state = "queued"
          /\ inflight' = [inflight EXCEPT !.jobs[i].state = "running"]
    /\ UNCHANGED <<active_runs, pause_event, spec, files_by_node, openai, pc, ordered_nodes, idx,
                   outputs, pending, tokens, events, response, library_call, library_result,
                   stored_indexes, chunker_input, embedded>>

\* persist returns, having stored the record, or raises; the finally clause of
\* persist_in_background releases the marker of the document
EndJob ==
    /\ \E i \in 1..Len(inflight.jobs), stored \in BOOLEAN :
          /\ inflight.jobs[i].state = "running"
          /\ inflight' = [ReleaseInflight(inflight, inflight.jobs[i].document_id) EXCEPT
                             !.jobs[i].state = "done",
                             !.persisted = IF stored
                                           THEN @ \cup {inflight.jobs[i].document_id}
                                           ELSE @]
    /\ UNCHANGED <<active_runs, pause_event, spec, files_by_node, openai, pc, ordered_nodes, idx,
                   outputs, pending, tokens, events, response, library_call, library_result,
                   stored_indexes, chunker_input, embedded>>

JobNext == persist_vector_store \/ StartJob \/ EndJob \/ Tick

JobSpec == InflightInit /\ [][JobNext]_vars

\* ---------------------------------------------------------------- embedded store persist
\* EmbeddedStorePersistence.persist called from several threads, with replace_chunks
\* calls between its steps. The repository and the index store each take their own
\* lock for the length of one method, so one method call is one step; what a persist
\* call holds between its steps (chunks, signature, existing) is its own.
MaxPersists == 2
MaxReplaces == 2
PersistedDocument == "d1"

\* the chunk lists the repository is given for the document
RepositoryChunks ==
    {<<ChunkRecord(PersistedDocument, 1, <<"r">>)>>,
     <<ChunkRecord(PersistedDocument, 2, <<"r">>)>>,
     <<ChunkRecord(PersistedDocument, 1, <<"r">>), ChunkRecord(PersistedDocument, 2, <<"r">>)>>}

\* _signature_for_chunks: the digest of the chunk ids joined by "|", which is one per
\* list of ids
SignatureForChunks(chunk_ids) == [sha256 |-> chunk_ids]

IdsOfChunks(chunks) == [i \in 1..Len(chunks) |-> chunks[i].chunk_id]

EmbeddedPersistenceRecord(document_id, indexed_chunk_count, signature) ==
    [document_id |-> document_id, indexed_chunk_count |-> indexed_chunk_count,
     signature |-> signature]

\* the document has been ingested: the repository holds its chunks, nothing is indexed
EmbeddedInit ==
    /\ active_runs = {}
    /\ pause_event = TRUE
    /\ spec = NoSpec
    /\ files_by_node = {}
    /\ openai = "no_key"
    /\ library_call = NoLibraryCall
    /\ library_result = NoLibraryResult
    /\ stored_indexes = NoIndexes
    /\ chunker_input = NoChunkerInput
    /\ inflight = NoInflight
    /\ embedded \in {[NoEmbedded EXCEPT !.chunks = chunks] : chunks \in RepositoryChunks}
    /\ pc = "idle"
    /\ ordered_nodes = << >>
    /\ idx = 0
    /\ outputs = NoOutputs
    /\ pending = NoOutput
    /\ tokens = 0
    /\ events = << >>
    /\ response = NoResponse

\* InMemoryRagDocumentRepository.replace_chunks
replace_chunks ==
    /\ embedded.replaced < MaxReplaces
    /\ \E chunks \in RepositoryChunks :
          embedded' = [embedded EXCEPT !.chunks = chunks, !.replaced = @ + 1]
    /\ UNCHANGED <<active_runs, pause_event, spec, files_by_node, openai, pc, ordered_nodes, idx,
                   outputs, pending, tokens, events, response, library_call, library_result,
                   stored_indexes, chunker_input, inflight>>

\* persist is called: list_chunks and the signature of what it returned
persist_list_chunks ==
    /\ Len(embedded.calls) < MaxPersists
    /\ embedded' = [embedded EXCEPT
                       !.calls = Append(@, [at |-> "get_embedded_persistence",
                                            chunks |-> embedded.chunks,
                                            signature |->
                                                SignatureForChunks(IdsOfChunks(embedded.chunks)),
                                            returned |-> << >>])]
    /\ UNCHANGED <<active_runs, pause_event, spec, files_by_node, openai, pc, ordered_nodes, idx,
                   outputs, pending, tokens, events, response, library_call, library_result,
                   stored_indexes, chunker_input, inflight>>

\* get_embedded_persistence and the first two operands of the condition
persist_get_embedded_persistence ==
    /\ \E i \in 1..Len(embedded.calls) :
          /\ embedded.calls[i].at = "get_embedded_persistence"
          /\ \E existing \in {embedded.record} :
                embedded' = [embedded EXCEPT
                    !.calls[i].at =
                        IF existing # << >> /\ existing.signature = embedded.calls[i].signature
                        THEN "has_document" ELSE "upsert",
                    !.calls[i].returned = existing]
    /\ UNCHANGED <<active_runs, pause_event, spec, files_by_node, openai, pc, ordered_nodes, idx,
                   outputs, pending, tokens, events, response, library_call, library_result,
                   stored_indexes, chunker_input, inflight>>

\* has_document, and the early return when the document is indexed
persist_has_document ==
    /\ \E i \in 1..Len(embedded.calls) :
          /\ embedded.calls[i].at = "has_document"
          /\ embedded' = [embedded EXCEPT
                !.calls[i].at =
                    IF PersistedDocument \in DOMAIN stored_indexes THEN "returned" ELSE "upsert"]
    /\ UNCHANGED <<active_runs, pause_event, spec, files_by_node, openai, pc, ordered_nodes, idx,
                   outputs, pending, tokens, events, response, library_call, library_result,
                   stored_indexes, chunker_input, inflight>>

\* self._index_store.upsert
persist_upsert ==
    /\ \E i \in 1..Len(embedded.calls) :
          /\ embedded.calls[i].at = "upsert"
          /\ \E scores \in ScoreLists(embedded.calls[i].chunks) :
                stored_indexes' = Upsert(stored_indexes, PersistedDocument,
                                         embedded.calls[i].chunks,
                                         embedded.calls[i].signature, scores)
          /\ embedded' = [embedded EXCEPT !.calls[i].at = "mark_embedded_persisted"]
    /\ UNCHANGED <<active_runs, pause_event, spec, files_by_node, openai, pc, ordered_nodes, idx,
                   outputs, pending, tokens, events, response, library_call, library_result,
                   chunker_input, inflight>>

\* mark_embedded_persisted, and the return
persist_mark_embedded_persisted ==
    /\ \E i \in 1..Len(embedded.calls) :
          /\ embedded.calls[i].at = "mark_embedded_persisted"
          /\ \E record \in {EmbeddedPersistenceRecord(PersistedDocument,
                                                      Len(embedded.calls[i].chunks),
                                                      embedded.calls[i].signature)} :
                embedded' = [embedded EXCEPT !.record = record,
                                             !.calls[i].at = "returned",
                                             !.calls[i].returned = record]
    /\ UNCHANGED <<active_runs, pause_event, spec, files_by_node, openai, pc, ordered_nodes, idx,
                   outputs, pending, tokens, events, response, library_call, library_result,
                   stored_indexes, chunker_input, inflight>>

EmbeddedNext ==
    \/ replace_chunks
    \/ persist_list_chunks
    \/ persist_get_embedded_persistence
    \/ persist_has_document
    \/ persist_upsert
    \/ persist_mark_embedded_persisted

EmbeddedSpec == EmbeddedInit /\ [][EmbeddedNext]_vars

\* ---------------------------------------------------------------- retrieval with review
\* RagAgentOrchestrator._run_retrieval_with_review on its own. What the agent and the
\* judge do at their n-th call is given with the call; the result carries, beside the
\* OrchestratorResult, the prompts the agent was called with and the answers the judge
\* was asked about. Texts are runs of characters, as for the citations.
max_judge_iterations == 3
max_sentences == 4

FallbackAnswerText == <<(<<"I could not find reliable information to answer your question.", 1>>)>>
NothingFoundText ==
    <<(<<"I couldn't find relevant information in the indexed documents to answer that question.",
         1>>)>>
RejectionNote == <<(<<"\n", 2>>), (<<"Previous answer was rejected: ", 1>>)>>

RECURSIVE LStripText(_)
\* text.lstrip()
LStripText(text) ==
    IF text # << >> /\ WhiteSpace(Head(text)[1]) THEN LStripText(Tail(text)) ELSE text

\* text.strip()
StripText(text) == LStripText(RStripText(text))

RECURSIVE SentenceSplit(_, _)
\* _SENTENCE_RE.split(text): cut at the white space that follows . ! or ?
SentenceSplit(text, current) ==
    IF text = << >> THEN <<current>>
    ELSE IF /\ WhiteSpace(Head(text)[1])
            /\ current # << >>
            /\ current[Len(current)][1] \in {".", "!", "?"}
    THEN <<current>> \o SentenceSplit(Tail(text), << >>)
    ELSE SentenceSplit(Tail(text), Append(current, Head(text)))

\* _simple_summary: the first max_sentences non-empty sentences of the evidence
SimpleSummary(evidence) ==
    LET split == Concat([i \in 1..Len(evidence) |-> SentenceSplit(evidence[i].text, << >>)])
        sentences == SelectSeq([i \in 1..Len(split) |-> NormalizeInlineWhitespace(split[i])],
                               LAMBDA sentence : sentence # << >>)
    IN  IF sentences = << >> THEN NothingFoundText
        ELSE Join(<<" ", 1>>, Take(sentences, max_sentences))

\* what the tools of the agent collect, and what the fallback search returns
ReviewEvidence ==
    <<Chunk("d1", <<"d1", "page", 0>>,
            <<(<<"x", 3>>), (<<".", 1>>), (<<" ", 2>>), (<<"y", 2>>), (<<".", 1>>)>>,
            "read_document"),
      Chunk("d1", <<"d1", "chunk", 1>>, <<(<<"x", 3>>), (<<".", 1>>), (<<" ", 1>>), (<<"y", 2>>), (<<".", 1>>)>>,
            "bm25_search")>>
SearchEvidence == <<Chunk("d1", <<"d1", "chunk", 1>>, <<(<<"y", 2>>), (<<".", 1>>)>>, "bm25_search")>>

\* the n-th call of _call_agent: it raises, or returns an AgentCallResult without
\* evidence, with evidence and the answer of the n-th attempt, or with evidence and
\* no output
AgentOutcomes == {"raises", "nothing", "answers", "silent"}
AttemptAnswer(n) == <<(<<"w", n>>)>>
CallAgent(outcome, n) ==
    [raised |-> outcome = "raises",
     output_text |-> IF outcome \in {"answers", "nothing"} THEN StripText(AttemptAnswer(n))
                     ELSE << >>,
     evidence |-> IF outcome \in {"answers", "silent"} THEN ReviewEvidence ELSE << >>,
     tools_used |-> IF outcome = "nothing" THEN << >> ELSE <<"read_document", "bm25_search">>]

\* the n-th call of _judge_answer: the judge approves, rejects with its feedback, or
\* fails, which _judge_answer turns into an approval
JudgeOutcomes == {"approved", "rejected", "fails"}
JudgeFeedback(n) == <<(<<"f", n>>)>>
JudgeAnswer(outcome, n) ==
    [approved |-> outcome # "rejected",
     feedback |-> IF outcome = "rejected" THEN JudgeFeedback(n) ELSE << >>]

\* CitationValidator.validate(citations).ok
CitationsValid(citations) ==
    \A i \in 1..Len(citations) :
        /\ citations[i].document_id # ""
        /\ citations[i].chunk_id # << >>
        /\ StripText(citations[i].supporting_quote) # << >>
        /\ citations[i].source_tool # ""

\* the result of the fallback after the loop
ReviewFallback(request, st) ==
    IF request.fallback_evidence # << >>
    THEN [answer |-> FallbackAnswerText,
          tools_used |-> AppendMissing(st.tools_used, <<"bm25_search_fallback">>),
          citations |-> BuildCitations(request.fallback_evidence),
          evidence |-> request.fallback_evidence,
          agent_prompts |-> st.agent_prompts, judged |-> st.judged]
    ELSE [answer |-> FallbackAnswerText, tools_used |-> st.tools_used, citations |-> << >>,
          evidence |-> << >>, agent_prompts |-> st.agent_prompts, judged |-> st.judged]

RECURSIVE ReviewLoop_NoLimit(_, _, _, _)
\* the loop without its bound: it goes on while the judge rejects
ReviewLoop_NoLimit(request, current_prompt, iteration, st) ==
    IF iteration > Len(request.agent) THEN ReviewFallback(request, st)
    ELSE LET agent_result == CallAgent(request.agent[iteration], iteration)
             called == [st EXCEPT
                           !.agent_prompts = Append(@, current_prompt),
                           !.tools_used = IF agent_result.raised
                                          THEN AppendMissing(@, <<"agent_retrieval_failed">>)
                                          ELSE AppendMissing(@, agent_result.tools_used)]
             citations == BuildCitations(agent_result.evidence)
             verdict == JudgeAnswer(request.judge[iteration], iteration)
             judged == [called EXCEPT !.judged = Append(@, agent_result.output_text)]
         IN  IF agent_result.raised \/ agent_result.evidence = << >>
             THEN ReviewFallback(request, called)
             ELSE IF verdict.approved
             THEN [answer |-> IF StripText(agent_result.output_text) # << >>
                              THEN StripText(agent_result.output_text)
                              ELSE SimpleSummary(agent_result.evidence),
                   tools_used |-> IF CitationsValid(citations) THEN judged.tools_used
                                  ELSE AppendMissing(judged.tools_used,
                                                     <<"citation_validation_failed">>),
                   citations |-> citations, evidence |-> agent_result.evidence,
                   agent_prompts |-> judged.agent_prompts, judged |-> judged.judged]
             ELSE ReviewLoop_NoLimit(request, request.prompt \o RejectionNote \o verdict.feedback,
                                     iteration + 1, judged)

RECURSIVE ReviewLoop(_, _, _, _)
\* for iteration in range(1, _MAX_JUDGE_ITERATIONS + 1), and what follows the loop
ReviewLoop(request, current_prompt, iteration, st) ==
    IF iteration > max_judge_iterations THEN ReviewFallback(request, st)
    ELSE LET agent_result == CallAgent(request.agent[iteration], iteration)
             called == [st EXCEPT
                           !.agent_prompts = Append(@, current_prompt),
                           !.tools_used = IF agent_result.raised
                                          THEN AppendMissing(@, <<"agent_retrieval_failed">>)
                                          ELSE AppendMissing(@, agent_result.tools_used)]
             citations == BuildCitations(agent_result.evidence)
             verdict == JudgeAnswer(request.judge[iteration], iteration)
             judged == [called EXCEPT !.judged = Append(@, agent_result.output_text)]
         IN  IF agent_result.raised \/ agent_result.evidence = << >>
             THEN ReviewFallback(request, called)
             ELSE IF verdict.approved
             THEN [answer |-> IF StripText(agent_result.output_text) # << >>
                              THEN StripText(agent_result.output_text)
                              ELSE SimpleSummary(agent_result.evidence),
                   tools_used |-> IF CitationsValid(citations) THEN judged.tools_used
                                  ELSE AppendMissing(judged.tools_used,
                                                     <<"citation_validation_failed">>),
                   citations |-> citations, evidence |-> agent_result.evidence,
                   agent_prompts |-> judged.agent_prompts, judged |-> judged.judged]
             ELSE ReviewLoop(request, request.prompt \o RejectionNote \o verdict.feedback,
                             iteration + 1, judged)

\* _run_retrieval_with_review
RunRetrievalWithReview(request) ==
    ReviewLoop(request, request.prompt, 1,
               [tools_used |-> << >>, agent_prompts |-> << >>, judged |-> << >>])

\* the outcomes of one call more than the loop may make
OutcomeLists(outcomes) ==
    {list \in SeqsUpTo(outcomes, max_judge_iterations + 1) :
        Len(list) = max_judge_iterations + 1}

ReviewRequests ==
    [prompt : {<<(<<"p", 1>>)>>}, agent : OutcomeLists(AgentOutcomes),
     judge : OutcomeLists(JudgeOutcomes), fallback_evidence : {<< >>, SearchEvidence}]

\* a chat request with review enabled reaches _run_retrieval_with_review
run_retrieval_with_review ==
    /\ library_call = NoLibraryCall
    /\ \E request \in ReviewRequests :
          /\ library_call' = [op |-> "run_retrieval_with_review", request |-> request]
          /\ library_result' = RunRetrievalWithReview(request)
    /\ UNCHANGED <<active_runs, pause_event, spec, files_by_node, openai, pc, ordered_nodes, idx,
                   outputs, pending, tokens, events, response, stored_indexes,
                   chunker_input, inflight, embedded>>

ReviewNext == run_retrieval_with_review

ReviewSpec == Init /\ [][ReviewNext]_vars

\* ---------------------------------------------------------------- C1
\* C1: for every edge (s, t) of the run spec, every node_started of t in the stream
\* comes after a node_completed of s: no node starts before all its declared
\* predecessors have completed.
C1_PredecessorsCompleteFirst ==
    \A k \in 1..Len(spec.edges), i \in 1..Len(events) :
        IsNode(i, "node_started", spec.edges[k].target) =>
            \E j \in 1..(i - 1) : IsNode(j, "node_completed", spec.edges[k].source)

\* a run in which the node with the larger id is the predecessor has started the
\* node with the smaller id
C1_Witness ==
    /\ \E k \in 1..Len(spec.edges) : spec.edges[k].source = 2 /\ spec.edges[k].target = 1
    /\ \E i \in 1..Len(events) : IsNode(i, "node_started", 1)

\* ---------------------------------------------------------------- C2
\* what may directly follow an event in a stream
MayFollow(a, b) ==
    CASE a.event = "run_started" ->
            b.event \in {"node_started", "run_paused", "run_completed", "run_failed"}
      [] a.event = "node_started" ->
            /\ b.event \in {"node_token", "node_completed", "node_failed"}
            /\ b.node_id = a.node_id
            /\ b.event = "node_token" => a.node_type = "agent"
      [] a.event = "node_token" ->
            /\ b.event \in {"node_token", "node_completed", "node_failed"}
            /\ b.node_id = a.node_id
      [] a.event = "node_completed" ->
            b.event \in {"node_started", "run_paused", "run_completed"}
      [] a.event = "node_failed" -> b.event = "run_failed"
      [] a.event = "run_paused" -> b.event = "run_resumed"
      [] a.event = "run_resumed" -> b.event = "node_started"
      [] OTHER -> FALSE

\* C2: the stream is run_started, then node by node node_started, node_token* (agent
\* nodes only) and one of node_completed / node_failed with no event of another node
\* in between and one node_started per node id at most, then one run_completed or
\* run_failed as the last event; run_paused and run_resumed come only between nodes.
C2_StreamShape ==
    /\ events # << >> => Is(1, "run_started")
    /\ \A i \in 2..Len(events) : MayFollow(events[i - 1], events[i])
    /\ \A i, j \in 1..Len(events) :
          (Is(i, "node_started") /\ Is(j, "node_started")
              /\ events[i].node_id = events[j].node_id) => i = j
    /\ \A i \in 1..Len(events) : Is(i, "node_token") => events[i].node_type = "agent"
    /\ StreamEnded => LastEvent.event \in {"run_completed", "run_failed"}

\* a finished stream with an agent's token and a pause between two nodes
C2_Witness ==
    /\ StreamEnded
    /\ \E i \in 1..Len(events) : Is(i, "node_token")
    /\ \E i \in 2..Len(events) : Is(i, "run_paused") /\ Is(i - 1, "node_completed")

\* ---------------------------------------------------------------- C3
\* C3: a run spec with a repeated node id, an edge to or from an undeclared node, or
\* a cycle executes no node, emits no node event, and its stream ends with run_failed.
C3_InvalidSpecRunsNothing ==
    (Started /\ InvalidSpec(spec)) =>
        /\ \A i \in 1..Len(events) : events[i].event \notin NodeKinds
        /\ outputs = NoOutputs
        /\ pc \notin {"exec", "token", "completed", "failed"}
        /\ StreamEnded => LastEvent.event = "run_failed"

\* the stream of a spec whose two declared nodes form a cycle has ended
C3_Witness ==
    /\ StreamEnded
    /\ ~HasDuplicateIds(spec.nodes)
    /\ ~HasUnknownEndpoint(spec.nodes, spec.edges)
    /\ HasCycle(spec.edges)
    /\ Len(spec.nodes) = 2

\* ---------------------------------------------------------------- C4
\* C4 as stated: when validation fails the stream is the single event run_failed.
C4_OnlyRunFailed ==
    (StreamEnded /\ InvalidSpec(spec)) =>
        Len(events) = 1 /\ Is(1, "run_failed")

\* C4 amended: when validation fails the stream is run_started followed by
\* run_failed, and nothing else.
C4_RunStartedThenRunFailed ==
    (InvalidSpec(spec) /\ pc \in {"final", "done"}) =>
        /\ Len(events) = 2
        /\ Is(1, "run_started")
        /\ Is(2, "run_failed")
        /\ events[2].error \in {"Pipeline nodes contain duplicate ids",
                                "Unknown edge source node", "Unknown edge target node",
                                "Pipeline graph contains a cycle"}

\* validation failed on an edge that names an undeclared node while the run was paused
C4_Witness ==
    /\ StreamEnded
    /\ HasUnknownEndpoint(spec.nodes, spec.edges)
    /\ ~pause_event

\* ---------------------------------------------------------------- C5
NodeFailed == \E i \in 1..Len(events) : Is(i, "node_failed")

\* C5 as stated: the stream of every valid spec (unique ids, declared endpoints, no
\* cycle) ends with run_completed.
C5_ValidSpecCompletes ==
    (StreamEnded /\ ValidSpec(spec)) => LastEvent.event = "run_completed"

\* C5 amended: the stream of a valid spec ends with run_completed when no node's
\* executor raises, and with run_failed when one does.
C5_ValidSpecCompletesUnlessNodeFails ==
    (StreamEnded /\ ValidSpec(spec)) =>
        LastEvent.event = (IF NodeFailed THEN "run_failed" ELSE "run_completed")

\* a valid two-node spec with an edge has run to run_completed
C5_Witness ==
    /\ StreamEnded
    /\ ValidSpec(spec)
    /\ Len(spec.nodes) = 2
    /\ Len(spec.edges) >= 1
    /\ LastEvent.event = "run_completed"

\* ---------------------------------------------------------------- C6
\* the message of the exception _execute_node raised for the node
ExpectedMessage(n) ==
    IF n \notin files_by_node THEN "Missing uploaded file for ingest node"
    ELSE "execution failed"

\* C6: a node_failed carries the error message, run_failed with that message is the
\* very next event and the last one, no node_started follows, and the failed node
\* was started once only.
C6_NodeFailureAbortsRun ==
    \A i \in 1..Len(events) :
        Is(i, "node_failed") =>
            /\ events[i].error = ExpectedMessage(events[i].node_id)
            /\ i < Len(events) => events[i + 1] = RunFailedEvent(events[i].error)
            /\ i + 1 >= Len(events)
            /\ pc \in {"failed", "final", "done", "abandoned"}
            /\ Cardinality({j \in 1..Len(events) :
                    IsNode(j, "node_started", events[i].node_id)}) = 1

\* the first of two nodes failed with the default message and the stream has ended
C6_Witness ==
    /\ StreamEnded
    /\ Len(ordered_nodes) = 2
    /\ idx = 1
    /\ \E i \in 1..Len(events) : Is(i, "node_failed") /\ events[i].error = "execution failed"

\* ---------------------------------------------------------------- C7
RunFinal == events # << >> /\ LastEvent.event \in {"run_completed", "run_failed"}

\* C7 as stated: every started run, unless its caller abandons the stream, reaches
\* its final run_completed or run_failed.
C7_EveryRunTerminates == Started ~> (RunFinal \/ pc = "abandoned")

\* C7 amended: every started run reaches its final run_completed or run_failed
\* unless its caller abandons the stream or its pause event stays cleared for ever
\* (a pause that no resume follows).
C7_RunTerminatesUnlessLeftPaused ==
    (<>[](~pause_event)) \/ (Started ~> (RunFinal \/ pc = "abandoned"))

\* a run that was paused and resumed has reached its final event
C7_Witness ==
    /\ RunFinal
    /\ \E i \in 1..Len(events) : Is(i, "run_resumed")
    /\ \E i \in 1..Len(events) : Is(i, "node_completed")

\* ---------------------------------------------------------------- C8
\* C8: whenever node_started is emitted, the run's pause event is set: no node
\* starts between a successful pause and the next resume.
C8_NoNodeStartWhilePauseCleared ==
    [][(Len(events') = Len(events) + 1 /\ events'[Len(events')].event = "node_started")
         => pause_event]_vars

\* ---------------------------------------------------------------- C9
OpenNodes(i) ==
    Cardinality({j \in 1..(i - 1) : Is(j, "node_started")})
      - Cardinality({j \in 1..(i - 1) : Is(j, "node_completed") \/ Is(j, "node_failed")})

C10_UnknownRunNotFound ==
    [][\A run_id \in CallIds :
          ((pause_run(run_id) \/ resume_run(run_id)) /\ run_id \notin active_runs) =>
              /\ response' = [status |-> 404, code |-> "run_not_found"]
              /\ pause_event' = pause_event
              /\ pc' = pc
              /\ active_runs' = active_runs]_vars

\* the last call was answered 404 while the run is registered, paused and waiting
C10_Witness ==
    /\ response.status = 404
    /\ RunId \in active_runs
    /\ ~pause_event
    /\ pc = "waiting"

\* ---------------------------------------------------------------- C11
\* C11: once the stream of a run has ended (read to run_completed or run_failed, or
\* abandoned by the caller at any point after the run was registered) the run id is
\* not in the registry, so a later pause or resume of it answers not-found.
C11_EndedRunIsReleased ==
    pc \in {"done", "abandoned"} => RunId \notin active_runs

\* ---------------------------------------------------------------- C12
\* the declared nodes not in done whose predecessors are all in done
ReadyAfter(done) ==
    {n \in NodeIdSet(spec.nodes) \ done :
        \A k \in 1..Len(spec.edges) :
            spec.edges[k].target = n => spec.edges[k].source \in done}

\* C12: the order _topological_order computes takes, at every position, the node
\* with the smallest id among the nodes whose predecessors all come before it.
C12_SmallestReadyFirst ==
    \A i \in 1..Len(ordered_nodes) :
        \A n \in ReadyAfter({ordered_nodes[j].id : j \in 1..(i - 1)}) :
            ordered_nodes[i].id <= n

\* ---------------------------------------------------------------- C13
\* the direct predecessors of a node, each once, in the order in which their edges
\* are first declared
FirstDeclaredSources(node_id) ==
    LET first == {k \in 1..Len(spec.edges) :
                    /\ spec.edges[k].target = node_id
                    /\ \A j \in 1..(k - 1) : spec.edges[j] # spec.edges[k]}
        nth(i) == CHOOSE k \in first : Cardinality({j \in first : j < k}) = i - 1
    IN  [i \in 1..Cardinality(first) |-> spec.edges[nth(i)].source]

\* C13: the predecessor outputs a node's executor is given are the recorded outputs
\* of its direct predecessors, each exactly once, in first-declared edge order, also
\* when an edge is declared more than once.
C13_EachPredecessorOnce ==
    pc = "exec" =>
        LET node_id == ordered_nodes[idx].id
            sources == FirstDeclaredSources(node_id)
        IN  Upstream(node_id, spec.edges, outputs)
                = [i \in 1..Len(sources) |-> outputs[sources[i]]]

\* ---------------------------------------------------------------- C14
\* the ids of the spec's nodes of one type
IdsOfType(type) ==
    {spec.nodes[k].id : k \in {j \in 1..Len(spec.nodes) : spec.nodes[j].type = type}}

\* the positions before i in the stream at which an agent node completed
AgentCompletionsBefore(i) ==
    {j \in 1..(i - 1) : Is(j, "node_completed") /\ events[j].node_type = "agent"}

\* C14: run_completed carries the recorded outputs of all output-type nodes, keyed by
\* node id, and nothing else; with no output-type node it carries exactly the output
\* of the agent-type node that executed last (and nothing when no agent ran either).
C14_RunCompletedCarriesFinalOutputs ==
    \A i \in 1..Len(events) :
        Is(i, "run_completed") =>
            LET carried == events[i].outputs
                agents == AgentCompletionsBefore(i)
                keys == IF IdsOfType("output") # {} THEN IdsOfType("output")
                        ELSE IF agents # {}
                        THEN {events[CHOOSE j \in agents : \A k \in agents : k <= j].node_id}
                        ELSE {}
            IN  /\ DOMAIN carried = keys
                /\ \A n \in keys : n \in DOMAIN outputs /\ carried[n] = outputs[n]

\* a run of two agent nodes and no output node has completed: the second agent ran
\* last and run_completed carries one output
C14_Witness ==
    /\ events # << >>
    /\ LastEvent.event = "run_completed"
    /\ IdsOfType("output") = {}
    /\ Cardinality(IdsOfType("agent")) = 2
    /\ Cardinality(DOMAIN LastEvent.outputs) = 1

\* ---------------------------------------------------------------- C15
\* the positions in the stream at which a direct-predecessor agent of a node completed
PredecessorAgentCompletions(node_id) ==
    {j \in 1..Len(events) :
        /\ Is(j, "node_completed")
        /\ events[j].node_type = "agent"
        /\ \E k \in 1..Len(spec.edges) :
              spec.edges[k].target = node_id /\ spec.edges[k].source = events[j].node_id}

\* C15: an output node returns the envelope of the direct-predecessor agent node that
\* executed last in the run, whatever the order in which its incoming edges were
\* declared, and an empty envelope when no direct predecessor produced one.
C15_OutputReturnsLastExecutedAgent ==
    (pc = "completed" /\ ordered_nodes[idx].type = "output") =>
        LET done == PredecessorAgentCompletions(ordered_nodes[idx].id)
        IN  pending.output =
                IF done = {} THEN << >>
                ELSE outputs[events[CHOOSE j \in done : \A k \in done : k <= j].node_id]
                        .agent_output

\* ---------------------------------------------------------------- C16, C17, C18
\* the message of the error run_read_document raises for an absent document or page
AbsentPage == "Document page not found"

\* a node of the type has failed in the stream with the error of an absent page
FailedOnAbsentPage(type) ==
    \E i \in 1..Len(events) :
        /\ Is(i, "node_failed")
        /\ events[i].node_type = type
        /\ events[i].error = AbsentPage

\* C16: a read node whose page or document is absent does not fail: the stream has
\* node_completed for it, not node_failed, and the run continues.
C16_AbsentReadIsNotANodeFailure == ~FailedOnAbsentPage("read_document")

\* C17: in a parallel-search node a read of a page that does not exist aborts neither
\* its siblings nor the node: the node does not fail on it.
C17_FailedSubOperationKeepsNode == ~FailedOnAbsentPage("parallel_search")

\* C18: a read_document tool that fails inside an agent node's tool loop is data: the
\* agent node does not fail on it.
C18_FailedToolKeepsAgent == ~FailedOnAbsentPage("agent")

\* ---------------------------------------------------------------- C19
\* the errors _generate_model_answer reports for a failed model call
ModelCallErrors ==
    {"missing_openai_api_key", "model_call_failed", "insufficient_quota", "empty_model_output"}

\* the marker run_agent adds to tools_used when the model call failed
ModelFailureMarker == "agent_model_generation_failed"

\* an agent node has just completed and its output waits to be recorded
AgentCompleted == pc = "completed" /\ ordered_nodes[idx].type = "agent"

\* C19: a failure of the model call inside an agent node (no credentials, an exception
\* of the call, an empty output) never produces node_failed: no agent fails with the
\* error of a model call, and an agent whose model call failed completes with the
\* fallback answer and the failure marker.
C19_ModelFailureIsNotANodeFailure ==
    /\ \A i \in 1..Len(events) :
          (Is(i, "node_failed") /\ events[i].node_type = "agent")
              => events[i].error \notin ModelCallErrors
    /\ AgentCompleted =>
          /\ pending.agent_output # << >>
          /\ LET envelope == pending.agent_output[1]
                 marked == ModelFailureMarker \in Range(envelope.tools_used)
             IN  /\ openai # "up" => marked
                 /\ marked => /\ envelope.answer # << >>
                               /\ Head(envelope.answer) = "Model generation unavailable."

\* the model call raised the quota error and the agent node completed with the marker
C19_Witness ==
    /\ AgentCompleted
    /\ openai = "down"
    /\ "agent_model_generation_failed:openai_quota_exhausted"
            \in Range(pending.agent_output[1].tools_used)
    /\ LastEvent.event = "node_completed"

\* ---------------------------------------------------------------- C20
\* the envelopes the agent nodes of the run have returned so far
ReturnedEnvelopes ==
    {outputs[n].agent_output : n \in {m \in DOMAIN outputs : outputs[m].kind = "agent"}}
        \cup (IF pc \in {"token", "completed"} /\ ordered_nodes[idx].type = "agent"
              THEN {pending.agent_output} ELSE {})

\* C20: run_agent never returns an envelope whose answer is empty or missing, whatever
\* the evidence, the upstream answers and the outcome of the model call.
C20_AnswerNeverEmpty ==
    \A returned \in ReturnedEnvelopes :
        /\ returned # << >>
        /\ Strip(returned[1].answer) # << >>

\* an agent whose model call failed and that had neither evidence nor upstream
\* answers has returned an answer
C20_Witness ==
    \E n \in DOMAIN outputs :
        /\ outputs[n].kind = "agent"
        /\ outputs[n].agent_output # << >>
        /\ outputs[n].agent_output[1].evidence = << >>
        /\ outputs[n].agent_output[1].upstream_answers = << >>
        /\ ModelFailureMarker \in Range(outputs[n].agent_output[1].tools_used)
        /\ outputs[n].agent_output[1].answer # << >>

\* ---------------------------------------------------------------- C21
\* run_agent was called on its own and returned an envelope
AgentReturned == library_call.op = "run_agent" /\ ~library_result.raised

\* the model call of the request was unusable: no key, an exception, or no output
ModelCallUnusable ==
    \/ library_call.openai_side = "no_key"
    \/ library_call.model_call.raises
    \/ Strip(library_call.model_call.final_output) = << >>

FailureClasses ==
    {"missing_openai_api_key", "openai_quota_exhausted", "empty_model_output",
     "model_call_failed"}

\* agent_model_generation_failed:<class>
ClassMarker(class) ==
    CASE class = "missing_openai_api_key"
            -> "agent_model_generation_failed:missing_openai_api_key"
      [] class = "openai_quota_exhausted"
            -> "agent_model_generation_failed:openai_quota_exhausted"
      [] class = "empty_model_output" -> "agent_model_generation_failed:empty_model_output"
      [] class = "model_call_failed" -> "agent_model_generation_failed:model_call_failed"

\* the failure markers among the tools_used of the returned envelope
FailureMarkersUsed ==
    Range(library_result.envelope.tools_used)
        \cap ({ModelFailureMarker} \cup {ClassMarker(class) : class \in FailureClasses})

\* the message (read without regard to case) contains insufficient_quota, or a 429
\* status code together with the word quota
MentionsExhaustedQuota(message) ==
    LET lowered == LowerMessage(message)
    IN  \/ Occurs("insufficient_quota", lowered)
        \/ /\ Occurs("error code: 429", lowered) \/ Occurs("status code: 429", lowered)
           /\ Occurs("quota", lowered)

\* C21: when the model call is unusable, tools_used holds agent_model_generation_failed
\* and agent_model_generation_failed:<class> for exactly one of the four classes; the
\* class is missing_openai_api_key without a key, empty_model_output for an empty
\* output, and openai_quota_exhausted only for an exception whose message contains
\* insufficient_quota, or a 429 status code together with the word quota; when the
\* model call succeeds neither marker is present.
C21_FailureIsClassifiedAndMarked ==
    AgentReturned =>
        IF ModelCallUnusable
        THEN \E class \in FailureClasses :
                /\ FailureMarkersUsed = {ModelFailureMarker, ClassMarker(class)}
                /\ library_call.openai_side = "no_key" => class = "missing_openai_api_key"
                /\ (library_call.openai_side = "up") => class = "empty_model_output"
                /\ class = "openai_quota_exhausted" =>
                      /\ library_call.model_call.raises
                      /\ MentionsExhaustedQuota(library_call.model_call.message)
        ELSE FailureMarkersUsed = {}

\* the model call raised "Disk quota exceeded while writing temp file", which is no
\* exhausted OpenAI quota, and the envelope carries the marker of a failed call
C21_Witness ==
    /\ AgentReturned
    /\ library_call.model_call.message = "Disk quota exceeded while writing temp file"
    /\ FailureMarkersUsed
            = {ModelFailureMarker, "agent_model_generation_failed:model_call_failed"}

\* ---------------------------------------------------------------- C22
RECURSIVE SplitAt(_, _, _)
\* the parts of a text between the occurrences of a separator piece
SplitAt(text, sep, current) ==
    IF text = << >> THEN <<current>>
    ELSE IF Head(text) = sep THEN <<current>> \o SplitAt(Tail(text), sep, << >>)
    ELSE SplitAt(Tail(text), sep, Append(current, Head(text)))

\* the items listed under a heading of an answer: the lines of the section that starts
\* with the heading, without their "- "
Listed(answer, heading) ==
    LET sections == SplitAt(answer, "\n\n", << >>)
        found == SelectSeq(sections, LAMBDA section : section # << >> /\ Head(section) = heading)
        lines == IF found = << >> THEN << >> ELSE SplitAt(Tail(found[1]), "\n", << >>)
    IN  [i \in 1..Len(lines) |-> Tail(lines[i])]

\* the sentences of evidence chunks, in evidence order, white space normalised, the
\* empty ones left out
SentencesOf(evidence) ==
    LET split == Concat([i \in 1..Len(evidence) |-> SplitSentences(evidence[i].text, << >>)])
    IN  SelectSeq([i \in 1..Len(split) |-> NormalizeWhitespace(split[i])],
                  LAMBDA text : text # << >>)

\* the first four of the sentences that differ, lower-cased, from every earlier one
Representative(sentences) ==
    LET keys == [i \in 1..Len(sentences) |-> LowerText(sentences[i])]
        first == SelectSeq([i \in 1..Len(sentences) |-> i],
                           LAMBDA i : \A j \in 1..(i - 1) : keys[j] # keys[i])
    IN  [k \in 1..(IF Len(first) < 4 THEN Len(first) ELSE 4) |-> sentences[first[k]]]

C23_UpsertStep ==
    library_call'.op = "upsert" =>
        LET document_id == library_call'.document_id
            signature == library_call'.signature
            unchanged == /\ document_id \in DOMAIN stored_indexes
                         /\ stored_indexes[document_id].signature = signature
        IN  /\ unchanged => stored_indexes'[document_id] = stored_indexes[document_id]
            /\ ~unchanged => /\ stored_indexes'[document_id].signature = signature
                             /\ stored_indexes'[document_id].chunks = library_call'.chunks
            /\ DOMAIN stored_indexes' = DOMAIN stored_indexes \cup {document_id}
            /\ \A other \in DOMAIN stored_indexes \ {document_id} :
                   stored_indexes'[other] = stored_indexes[other]
            /\ \A d \in DOMAIN stored_indexes' : stored_indexes'[d].document_id = d

C23_UpsertReplacesOnlyOnNewSignature == [][C23_UpsertStep]_vars

\* an upsert with the stored signature and other chunks has left the index as it was,
\* with another document in the registry
C23_Witness ==
    /\ library_call.op = "upsert"
    /\ DOMAIN stored_indexes = {"d1", "d2"}
    /\ stored_indexes[library_call.document_id].signature = library_call.signature
    /\ stored_indexes[library_call.document_id].chunks # library_call.chunks

\* ---------------------------------------------------------------- C24
\* the chunks of the documents in scope that score above zero for the query, each once
PositiveInScope(indexes, query, document_ids) ==
    LET scope == IF document_ids # << >> THEN Range(document_ids) \cap DOMAIN indexes
                 ELSE DOMAIN indexes
    IN  UNION {{EvidenceChunk(indexes[d].chunks[i], Score(indexes[d], query)[i]) :
                    i \in {j \in 1..Len(indexes[d].chunks) : Score(indexes[d], query)[j] > 0}} :
               d \in scope}

\* a set of scored chunks as a list, by descending score, then by ascending chunk id
ByScoreThenChunkId(chunks) ==
    LET key(chunk) == <<0 - chunk.score, chunk.chunk_id>>
    IN  [k \in 1..Cardinality(chunks) |->
            CHOOSE chunk \in chunks :
                Cardinality({other \in chunks : LexLess(key(other), key(chunk))}) = k - 1]

\* C24: for any top_k >= 1, Bm25IndexStore.search(query, top_k, document_ids) returns
\* exactly the first top_k elements of the list of all positively scoring chunks in
\* scope, sorted by descending score with ties broken by ascending chunk id.
C24_SearchReturnsTopKByScoreThenChunkId ==
    library_call.op = "search" =>
        library_result = Take(ByScoreThenChunkId(PositiveInScope(stored_indexes,
                                                                 library_call.query,
                                                                 library_call.document_ids)),
                              library_call.top_k)

\* ---------------------------------------------------------------- C25
\* the pieces that hold a letter or a digit
Alphanumeric(piece) == piece \in {"q", "r"}

NoScoreAtOrBelowZero ==
    library_call.op = "search" =>
        \A i \in 1..Len(library_result) : library_result[i].score > 0

C26_ResultStaysInDocumentScope ==
    (library_call.op = "bm25_search" /\ library_call.document_ids # << >>) =>
        \A i \in 1..Len(library_result) :
            library_result[i].document_id \in Range(library_call.document_ids)

\* the index returned chunks of another document only, and the lexical fallback has
\* returned chunks of the listed document
C26_Witness ==
    /\ library_call.op = "bm25_search"
    /\ library_call.document_ids = <<"d1">>
    /\ library_result # << >>
    /\ \A raw \in {RunBm25(stored_indexes, library_call.query, library_call.top_k)} :
          raw # << >> /\ \A i \in 1..Len(raw) : raw[i].document_id = "d2"

\* ---------------------------------------------------------------- C27
\* C27: PipelineRuntime.bm25_search(query, top_k, document_ids) with a non-empty
\* document_ids list returns the top_k highest ranked chunks among the chunks of the
\* listed documents, the result of Bm25IndexStore.search(query, top_k, document_ids),
\* whenever those documents are indexed, whatever other documents the index holds.
C27_ScopedSearchEqualsStoreSearch ==
    (/\ library_call.op = "bm25_search"
     /\ library_call.document_ids # << >>
     /\ Range(library_call.document_ids) \subseteq DOMAIN stored_indexes)
    => library_result = StoreSearch(stored_indexes, Strip(library_call.query),
                                    library_call.top_k, library_call.document_ids)

\* ---------------------------------------------------------------- C28
ChunkerCalls == {"chunk_pdf_blocks", "chunk_text_pages"}

ChunkIds(result) == [i \in 1..Len(result.chunks) |-> result.chunks[i].chunk_id]

\* C28: chunk_pdf_blocks and chunk_text_pages are deterministic: two invocations with
\* the same document id, the same ordered input segments and the same parameters return
\* the same sequence of chunk ids.
C28_SameInputsSameChunkIds ==
    [][(library_call.op \in ChunkerCalls /\ library_call'.op = library_call.op)
       => ChunkIds(library_result') = ChunkIds(library_result)]_vars

\* ---------------------------------------------------------------- C29
\* C29: every chunk returned by chunk_pdf_blocks or chunk_text_pages has token_count at
\* most token_target (for token_target >= 1), whatever the sizes of the input blocks or
\* lines and whatever overlap_tokens is.
C29_TokenCountWithinTarget ==
    library_call.op \in ChunkerCalls =>
        \A i \in 1..Len(library_result.chunks) :
            library_result.chunks[i].token_count <= chunker_input.token_target

\* a block or line longer than token_target was split, and a chunk was closed with an
\* overlap that had to be dropped for the next segment to fit
C29_Witness ==
    /\ library_call.op \in ChunkerCalls
    /\ \E k \in 1..(Len(library_result.closed) - 1) :
          LET closed == library_result.closed[k]
              next == library_result.closed[k + 1]
          IN  /\ closed[1].page_number = next[1].page_number
              /\ Len(next) = 1
              /\ closed[Len(closed)].token_count + next[1].token_count
                    > chunker_input.token_target
              /\ next[1].token_count = chunker_input.token_target
              /\ next[1].text \notin BlockTexts \cup LineTexts

\* ---------------------------------------------------------------- C30
\* the shortest suffix of the segments whose token total reaches overlap_tokens, all of
\* them if their total is smaller
ShortestSuffix(segments, overlap_tokens) ==
    LET suffix(n) == SubSeq(segments, Len(segments) - n + 1, Len(segments))
        reaching == {n \in 0..Len(segments) : SumTokens(suffix(n)) >= overlap_tokens}
    IN  IF reaching = {} THEN segments ELSE suffix(MinOf(reaching))

\* the segments the chunk after a closed chunk of the same page is seeded with
Seed(closed, next_segment, request) ==
    LET suffix == ShortestSuffix(closed, request.overlap_tokens)
    IN  IF SumTokens(suffix) + next_segment.token_count > request.token_target THEN << >>
        ELSE suffix

RECURSIVE SeededAsStated(_, _, _, _, _)
\* the chunks of a page, from the k-th on, are closed with the seed followed by the
\* segments of the page from position at on
SeededAsStated(closed, segments, k, at, request) ==
    IF k > Len(closed) THEN at = Len(segments) + 1
    ELSE LET seed == IF k = 1 THEN << >> ELSE Seed(closed[k - 1], segments[at], request)
             fresh == Len(closed[k]) - Len(seed)
         IN  /\ at <= Len(segments)
             /\ fresh >= 1
             /\ at + fresh - 1 <= Len(segments)
             /\ closed[k] = seed \o SubSeq(segments, at, at + fresh - 1)
             /\ SeededAsStated(closed, segments, k + 1, at + fresh, request)

\* the lists of segments the chunks of a page were closed with
ClosedOnPage(closed, page_number) ==
    SelectSeq(closed, LAMBDA segments : segments[Len(segments)].page_number = page_number)

\* C30: after a chunk is closed, the next chunk of the same page is seeded with the
\* shortest suffix of the closed chunk's segments whose token total reaches
\* overlap_tokens (all of its segments if their total is smaller), or with nothing at
\* all when that suffix plus the next segment would exceed token_target; the first chunk
\* of a page is never seeded with segments of the previous page.
C30_NextChunkSeededWithShortestSuffix ==
    library_call.op \in ChunkerCalls =>
        \A pages \in {IF library_call.op = "chunk_pdf_blocks"
                      THEN PdfPages(chunker_input, library_call.tokenizer)
                      ELSE TextPages(chunker_input, library_call.tokenizer)} :
            \A p \in 1..Len(pages) :
                SeededAsStated(ClosedOnPage(library_result.closed, pages[p][1]),
                               pages[p][2], 1, 1, chunker_input)

\* ---------------------------------------------------------------- C31
\* the first 160 characters of the whitespace-normalised, lower-cased text
NormalisedPrefix(text) == TextPrefix(LowerRuns(NormalizeInlineWhitespace(text)), prefix_len)

\* the chunks of the evidence that are of the document of chunk i and alike in the
\* first 160 characters of their normalised text
QuoteGroup(evidence, i) ==
    {j \in 1..Len(evidence) :
        /\ evidence[j].document_id = evidence[i].document_id
        /\ NormalisedPrefix(evidence[j].text) = NormalisedPrefix(evidence[i].text)}

\* the citations that cite a chunk of the group
CitationsOf(citations, evidence, group) ==
    {k \in 1..Len(citations) :
        \E j \in group : /\ citations[k].document_id = evidence[j].document_id
                         /\ citations[k].chunk_id = evidence[j].chunk_id}

\* the group of chunk i has one citation, that of its first chunk
OneCitationOfTheFirst(citations, evidence, i) ==
    LET group == QuoteGroup(evidence, i)
        first == CHOOSE j \in group : \A other \in group : j <= other
        cited == CitationsOf(citations, evidence, group)
    IN  /\ Cardinality(cited) = 1
        /\ \A k \in cited : citations[k].chunk_id = evidence[first].chunk_id

\* C31: every group of chunks of one document alike in the first 160 characters of
\* their whitespace-normalised, lower-cased text has exactly one citation, that of its
\* first chunk in evidence order; the groups of different documents are cited apart.
C31_OneCitationPerQuoteGroup ==
    library_call.op = "build_citations" =>
        \A i \in 1..Len(library_call.evidence) :
            OneCitationOfTheFirst(library_result, library_call.evidence, i)

\* two chunks of d1 alike in 160 characters yet different in text, and the like
\* chunk of d2, were passed: d1 has one citation, d2 its own
C31_Witness ==
    /\ library_call.op = "build_citations"
    /\ library_call.evidence = <<CitedChunk("d1", 3), CitedChunk("d1", 2), CitedChunk("d2", 1)>>
    /\ Len(library_result) = 2
    /\ library_result[1].chunk_id = <<"d1", "page", 3>>
    /\ library_result[2].document_id = "d2"
\* ---------------------------------------------------------------- C32
\* the first 160 characters of the whitespace-normalised, lower-cased text of a chunk
\* of the request: the text up to its word of 160 characters, or all of a shorter text
PrefixOfPieces(text) ==
    LET normalized == LowerText(NormalizeWhitespace(text))
    IN  IF normalized # << >> /\ Head(normalized) = "w160" THEN <<"w160">> ELSE normalized

Cited(envelope, chunk) ==
    \E k \in 1..Len(envelope.citations) :
        /\ envelope.citations[k].document_id = chunk.document_id
        /\ envelope.citations[k].chunk_id = chunk.chunk_id

\* C32: of two evidence chunks of the same document whose normalised text is alike in
\* its first 160 characters, the envelope run_agent returns cites only one.
C32_EnvelopeCitesOnePerSharedPrefix ==
    AgentReturned =>
        \A envelope \in {library_result.envelope} :
            \A i, j \in 1..Len(envelope.evidence) :
                (/\ i < j
                 /\ envelope.evidence[i].document_id = envelope.evidence[j].document_id
                 /\ PrefixOfPieces(envelope.evidence[i].text)
                        = PrefixOfPieces(envelope.evidence[j].text))
                => ~(Cited(envelope, envelope.evidence[i]) /\ Cited(envelope, envelope.evidence[j]))
\* ---------------------------------------------------------------- C33
Fused == library_call.op = "reciprocal_rank_fusion"

RECURSIVE StatedScore(_, _, _)
\* the sum, over those of the first n lists that contain the chunk, of
\* weight(source_tool) / (k + rank), rank counted from 1
StatedScore(request, key, n) ==
    IF n = 0 THEN 0
    ELSE LET list == request.evidence_lists[n]
             at == {rank \in 1..Len(list) : ChunkKey(list[rank]) = key}
             here == IF at = {} THEN 0
                     ELSE LET rank == CHOOSE rank \in at : TRUE
                          IN  Term(Weight(request.tool_weights, list[rank].source_tool),
                                   request.k, rank)
         IN  StatedScore(request, key, n - 1) + here

\* the chunk as the first list that contains it has it
FirstContent(request, key) ==
    LET lists == request.evidence_lists
        n == CHOOSE n \in 1..Len(lists) :
                /\ \E rank \in 1..Len(lists[n]) : ChunkKey(lists[n][rank]) = key
                /\ \A m \in 1..(n - 1) : \A rank \in 1..Len(lists[m]) :
                      ChunkKey(lists[m][rank]) # key
        rank == CHOOSE rank \in 1..Len(lists[n]) : ChunkKey(lists[n][rank]) = key
    IN  lists[n][rank]

\* the chunks of the lists
FusedKeys(request) ==
    UNION {{ChunkKey(request.evidence_lists[n][rank]) : rank \in 1..Len(request.evidence_lists[n])} :
              n \in 1..Len(request.evidence_lists)}

\* every returned chunk has the stated score and the content of its first
\* appearance, and the returned chunks are in descending score, equal scores in
\* ascending chunk id, none of them twice
ScoredAndOrdered(request, result) ==
    /\ \A i \in 1..Len(result) :
          /\ result[i].score = StatedScore(request, ChunkKey(result[i]),
                                           Len(request.evidence_lists))
          /\ result[i].text = FirstContent(request, ChunkKey(result[i])).text
          /\ result[i].source_tool = FirstContent(request, ChunkKey(result[i])).source_tool
    /\ \A i, j \in 1..Len(result) :
          i < j => /\ ChunkKey(result[i]) # ChunkKey(result[j])
                   /\ \/ result[i].score > result[j].score
                      \/ /\ result[i].score = result[j].score
                         /\ IdRank(result[i].chunk_id) <= IdRank(result[j].chunk_id)

\* C33 as stated: the chunks of the lists are returned, each with the score that is
\* the sum of weight / (k + rank) over the lists containing it and with the content
\* of the first list containing it, in descending score, ties in ascending chunk id.
C33_Original ==
    Fused =>
        /\ ScoredAndOrdered(library_call.request, library_result)
        /\ {ChunkKey(library_result[i]) : i \in 1..Len(library_result)}
              = FusedKeys(library_call.request)

\* C33: the first max(1, top_k) chunks of that order are returned, top_k being 8
\* unless the caller sets it: each with the score that is the sum of
\* weight / (k + rank) over the lists containing it and with the content of the first
\* list containing it, in descending score, ties in ascending chunk id, and no chunk
\* left out comes before a returned one in that order.
C33_BestTopKInFusedOrder ==
    Fused =>
        \A request \in {library_call.request} :
            \A left_out \in {FusedKeys(request)
                                \ {ChunkKey(library_result[i]) : i \in 1..Len(library_result)}} :
                /\ ScoredAndOrdered(request, library_result)
                /\ Len(library_result) = IF Cardinality(FusedKeys(request)) < Max(1, request.top_k)
                                         THEN Cardinality(FusedKeys(request))
                                         ELSE Max(1, request.top_k)
                /\ \A key \in left_out, i \in 1..Len(library_result) :
                      \/ library_result[i].score
                            > StatedScore(request, key, Len(request.evidence_lists))
                      \/ /\ library_result[i].score
                               = StatedScore(request, key, Len(request.evidence_lists))
                         /\ IdRank(library_result[i].chunk_id) <= IdRank(key[2])

\* the lists [[A, B], [C, B]] were fused with the defaults: the result is B, A, C,
\* B with the sum of its two terms
C33_Witness ==
    /\ Fused
    /\ library_call.request.evidence_lists
          = <<(<<FusedChunk("A", "a", "bm25_search", 0), FusedChunk("B", "b", "bm25_search", 0)>>),
              (<<FusedChunk("C", "c", "bm25_search", 0),
                 FusedChunk("B", "b stored", "vector_search", 0)>>)>>
    /\ library_call.request.tool_weights = << >>
    /\ library_call.request.top_k = rrf_top_k
    /\ [i \in 1..Len(library_result) |-> library_result[i].chunk_id] = <<"B", "A", "C">>
    /\ library_result[1].text = "b"
    /\ library_result[1].score = 2 * Term(1, rrf_k, 2)
    /\ library_result[2].score = Term(1, rrf_k, 1)
    /\ library_result[3].score = Term(1, rrf_k, 1)
\* ---------------------------------------------------------------- C34
\* the marker of the document is held: an acquire succeeded, no release followed it
\* and no more than the TTL has passed since
Held(state, document_id) ==
    /\ document_id \in DOMAIN state.held_since
    /\ state.now - state.held_since[document_id] <= state.ttl

\* a step in which no time passes is a call, named by library_call after it
C34_Step ==
    inflight'.now = inflight.now =>
        /\ library_call'.op = "try_acquire_inflight"
              => library_result' = ~Held(inflight, library_call'.document_id)
        /\ library_call'.op = "is_inflight"
              => library_result' = Held(inflight, library_call'.document_id)

\* C34: try_acquire_inflight of a document returns True exactly when no marker of the
\* document is held, that is when no acquire succeeded before, or a release or more
\* than the TTL followed the last success; is_inflight returns True exactly when the
\* marker is held. So a successful acquire makes every further acquire return False
\* and is_inflight True until release or expiry, after which is_inflight is False
\* and the next acquire succeeds.
C34_OneHolderPerDocument == [][C34_Step]_vars

\* d1 was acquired at time 0 with a TTL of one second; two seconds later nothing was
\* released, is_inflight has just answered False and the marker is gone
C34_Witness ==
    /\ library_call.op = "is_inflight"
    /\ library_call.document_id = "d1"
    /\ library_result = FALSE
    /\ "d1" \in DOMAIN inflight.held_since
    /\ inflight.held_since["d1"] = 0
    /\ inflight.now = 2
    /\ "d1" \notin inflight.documents
\* ---------------------------------------------------------------- C38
\* the jobs of the document that have not ended and whose marker has not expired
JobsUnderMarker(state, document_id) ==
    {i \in 1..Len(state.jobs) :
        /\ state.jobs[i].document_id = document_id
        /\ state.jobs[i].state # "done"
        /\ state.now - state.jobs[i].acquired_at <= state.ttl}

\* C38: at no time do two persist jobs of one document run under the in-flight
\* marker: the release of a job whose marker expired and was acquired again leaves
\* the marker of the second job in place, so that no third job is queued while the
\* second has not ended.
C38_OneJobUnderMarker ==
    \A document_id \in InflightDocuments :
        Cardinality(JobsUnderMarker(inflight, document_id)) <= 1
\* ---------------------------------------------------------------- C35
Reviewed == library_call.op = "run_retrieval_with_review"

\* attempt n brings evidence / the judge approves what attempt n brought
BringsEvidence(request, n) == request.agent[n] \in {"answers", "silent"}
Approves(request, n) == request.judge[n] # "rejected"

\* attempt n is made: every attempt before it brought evidence that the judge rejected
Made(request, n) ==
    \A m \in 1..(n - 1) : BringsEvidence(request, m) /\ ~Approves(request, m)

\* the attempts whose evidence the judge approved
ApprovedAttempts(request) ==
    {n \in 1..max_judge_iterations :
        Made(request, n) /\ BringsEvidence(request, n) /\ Approves(request, n)}

\* at most 3 calls of the agent and of the judge, the first with the prompt and every
\* later one with the feedback of the rejection before it
CallsAsStated(request, result) ==
    /\ Len(result.agent_prompts) <= 3
    /\ Len(result.judged) <= 3
    /\ \A n \in 1..Len(result.agent_prompts) :
          result.agent_prompts[n] = IF n = 1 THEN request.prompt
                                    ELSE request.prompt \o RejectionNote \o JudgeFeedback(n - 1)
    /\ \A n \in 1..3 :
          (Made(request, n) /\ BringsEvidence(request, n) /\ ~Approves(request, n) /\ n < 3)
              => Len(result.agent_prompts) > n

\* C35 as stated: at most 3 calls of the agent and of the judge; the answer of the
\* first approved attempt is returned, the agent is re-prompted with the feedback
\* after each rejection, and the fallback answer is returned when all 3 attempts are
\* rejected or an attempt brings no evidence.
C35_Original ==
    Reviewed =>
        \A request \in {library_call.request} :
            /\ CallsAsStated(request, library_result)
            /\ \A n \in ApprovedAttempts(request) : library_result.answer = AttemptAnswer(n)
            /\ ApprovedAttempts(request) = {} => library_result.answer = FallbackAnswerText

\* C35: at most 3 calls of the agent and of the judge; the output of the first
\* approved attempt is returned, or the summary of its evidence when its output is
\* empty; the agent is re-prompted with the feedback after each rejection, and the
\* fallback answer is returned when all 3 attempts are rejected or an attempt brings
\* no evidence.
C35_ReviewLoopBounded ==
    Reviewed =>
        \A request \in {library_call.request} :
            /\ CallsAsStated(request, library_result)
            /\ \A n \in ApprovedAttempts(request) :
                  /\ Len(library_result.agent_prompts) = n
                  /\ Len(library_result.judged) = n
                  /\ library_result.evidence = ReviewEvidence
                  /\ library_result.answer = IF request.agent[n] = "answers"
                                             THEN AttemptAnswer(n)
                                             ELSE SimpleSummary(ReviewEvidence)
            /\ ApprovedAttempts(request) = {} => library_result.answer = FallbackAnswerText

\* the judge rejected the first two attempts and approved the third, whose answer is
\* returned after three calls of each
C35_Witness ==
    /\ Reviewed
    /\ SubSeq(library_call.request.agent, 1, 3) = <<"answers", "answers", "answers">>
    /\ SubSeq(library_call.request.judge, 1, 3) = <<"rejected", "rejected", "approved">>
    /\ Len(library_result.agent_prompts) = 3
    /\ Len(library_result.judged) = 3
    /\ library_result.answer = AttemptAnswer(3)
    /\ library_result.agent_prompts[3] = library_call.request.prompt \o RejectionNote
                                            \o JudgeFeedback(2)
\* ---------------------------------------------------------------- C37
\* every persist call made has returned
AllPersistsReturned ==
    /\ embedded.calls # << >>
    /\ \A i \in 1..Len(embedded.calls) : embedded.calls[i].at = "returned"

\* C37: once every persist and replace_chunks call has returned, the index stored for
\* the document carries the signature of the document's embedded-persistence record.
C37_IndexAndRecordAgree ==
    AllPersistsReturned =>
        /\ embedded.record # << >>
        /\ PersistedDocument \in DOMAIN stored_indexes
        /\ stored_indexes[PersistedDocument].signature = embedded.record.signature
\* ---------------------------------------------------------------- C39
RECURSIVE ConsecutiveRuns(_, _, _, _)
\* the chunks of a page, from the k-th on, are each a run of consecutive segments of
\* the page that ends with at least one segment after position done, the last of them
\* with the last segment of the page
ConsecutiveRuns(closed, segments, k, done) ==
    IF k > Len(closed) THEN done = Len(segments)
    ELSE \E fresh \in 1..Len(closed[k]) :
            /\ done + fresh <= Len(segments)
            /\ done + fresh >= Len(closed[k])
            /\ closed[k] = SubSeq(segments, done + fresh - Len(closed[k]) + 1, done + fresh)
            /\ ConsecutiveRuns(closed, segments, k + 1, done + fresh)

\* the pages and segments the call made of its input
PagesOfCall ==
    IF library_call.op = "chunk_pdf_blocks"
    THEN PdfPages(chunker_input, library_call.tokenizer)
    ELSE TextPages(chunker_input, library_call.tokenizer)

\* C39: chunking loses no text: every segment of a page is in a chunk of that page, the
\* chunks of a page hold the segments in page order, and every chunk holds a segment
\* that no earlier chunk holds; the text of a chunk is that of its segments.
C39_ChunkingLosesNoText ==
    library_call.op \in ChunkerCalls =>
        /\ Len(library_result.closed) = Len(library_result.chunks)
        /\ \A i \in 1..Len(library_result.chunks) :
              /\ library_result.chunks[i].text = JoinedText(library_result.closed[i])
              /\ \A j \in 1..Len(library_result.closed[i]) :
                    library_result.closed[i][j].page_number
                        = library_result.chunks[i].page_number
        /\ \A pages \in {PagesOfCall} :
              \A p \in 1..Len(pages) :
                  ConsecutiveRuns(ClosedOnPage(library_result.closed, pages[p][1]),
                                  pages[p][2], 1, 0)

\* a page of at least three segments came out as at least two chunks, the second
\* repeating the last segment of the first before the segments that follow
C39_Witness ==
    /\ library_call.op \in ChunkerCalls
    /\ \E p \in 1..Len(PagesOfCall) :
          LET on_page == ClosedOnPage(library_result.closed, PagesOfCall[p][1])
          IN  /\ Len(PagesOfCall[p][2]) >= 3
              /\ Len(on_page) >= 2
              /\ Len(on_page[2]) >= 2
              /\ on_page[2][1] = on_page[1][Len(on_page[1])]
              /\ on_page[2][1] = PagesOfCall[p][2][Len(on_page[1])]
\* ---------------------------------------------------------------- C36
\* every pause is followed by a resume: a cleared pause event is set again
EveryPauseResumed == (~pause_event) ~> pause_event

\* C36: if every pause of the run is followed by a resume, the caller keeps reading
\* the stream and every executor returns, the run reaches its final run_completed or
\* run_failed: the scheduler is not left suspended after the last resume.
C36_NoLostWakeUp == EveryPauseResumed => (Started ~> RunFinal)

\* the run was paused while the scheduler, woken by a resume, had not run on yet, was
\* resumed once more, and has reached its final event
C36_Witness ==
    /\ RunFinal
    /\ pause_event
    /\ Cardinality({i \in 1..Len(events) : Is(i, "run_paused")}) >= 2
    /\ Cardinality({i \in 1..Len(events) : Is(i, "run_resumed")}) >= 2
====
